---------------------------- MODULE Spec2Model ----------------------------
(***************************************************************************)
(* A model of the recipe-ingestion pipeline of pickandcook:                *)
(*   collector.py        fetch_new_videos (Discover-recent),               *)
(*                       process_pending_videos (Process-pending),         *)
(*                       analyze_recipe_with_gemini (the retrying wrapper),*)
(*                       get_text_to_analyze (the source-text resolver)    *)
(*   backfill_videos.py  backfill_all_shorts (Backfill-all)                *)
(*   init_db.py          the Channel and Video tables                      *)
(*   add_channel.py      add_new_channel (channel registration)            *)
(*   server.py           get_recommendations, search_recipes               *)
(*                                                                         *)
(* Specifications:                                                         *)
(*   Spec          any sequence of runs of the three operations            *)
(*   SpecCrash     the same, with runs that die at any point               *)
(*   SpecUnit      one pass of Process-pending, every script of answers    *)
(*   SpecReplay    Backfill-all repeated against an unchanging provider    *)
(*   SpecResolver  one call of the resolver, every input                   *)
(*   SpecChannels  any sequence of channel registrations                   *)
(*   SpecCommitFailure  the pipeline with commits that raise               *)
(*   SpecReplayFair     SpecReplay with runs that always take their step   *)
(*   SpecCompare   Discover-recent and Backfill-all, unchanging provider   *)
(*   SpecStartup   the module-level code of each program, then its main    *)
(*   SpecConcurrent     two Process-pending runs on one store              *)
(*   SpecFlags     the ingestion operations, every setting of is_active    *)
(*   SpecRepeat    Process-pending run again and again                     *)
(*   SpecRepeatFair     SpecRepeat with runs that always take their step   *)
(*   SpecServer    the pipeline and the requests of the API server         *)
(*                                                                         *)
(* The two Korean sentinel titles of the source are written in Latin       *)
(* letters here, because the module is ASCII:                              *)
(*   ANALYSIS_FAILED  is the title literal of collector.py line 385/396,   *)
(*   AI_COMM_ERROR    is the title literal of collector.py line 425/428.   *)
(***************************************************************************)
EXTENDS Naturals, Sequences, FiniteSets, TLC

(***************************************************************************)
(* Python / JSON values.                                                   *)
(*                                                                         *)
(* A JSON value inside an object (a "field value") is [tag, v], v always a *)
(* sequence of strings so that all values are comparable:                  *)
(*   null            [tag |-> "null", v |-> <<>>]      (Python None)       *)
(*   string s        [tag |-> "str",  v |-> <<s>>]                         *)
(*   number n        [tag |-> "num",  v |-> <<n>>]     (its digits)        *)
(*   list of strings [tag |-> "list", v |-> the elements]                  *)
(***************************************************************************)
PyNone == [tag |-> "null", v |-> <<>>]
PyStr(s) == [tag |-> "str", v |-> <<s>>]
PyNum(n) == [tag |-> "num", v |-> <<n>>]
PyList(xs) == [tag |-> "list", v |-> xs]

\* Python truth value of a field value: None, "", 0 and [] are falsy.
Truthy(x) ==
    CASE x.tag = "null" -> FALSE
      [] x.tag = "str"  -> x.v[1] # ""
      [] x.tag = "num"  -> x.v[1] # "0"
      [] x.tag = "list" -> Len(x.v) > 0

(***************************************************************************)
(* A parsed top-level JSON value, as json.loads returns it:                *)
(*   kind "obj"   a dict; members is its (key, value) sequence in          *)
(*                insertion order, keys distinct                           *)
(*   kind "arr" | "str" | "num" | "bool" | "null"   scalar holds the       *)
(*                elements / the string / the digits / "true" or "false"   *)
(***************************************************************************)
Member(k, x) == [k |-> k, x |-> x]
JObj(ms) == [kind |-> "obj", members |-> ms, scalar |-> <<>>]
JArr(xs) == [kind |-> "arr", members |-> <<>>, scalar |-> xs]
JStr(s) == [kind |-> "str", members |-> <<>>, scalar |-> <<s>>]
JNum(n) == [kind |-> "num", members |-> <<>>, scalar |-> <<n>>]
JBool(b) == [kind |-> "bool", members |-> <<>>, scalar |-> <<b>>]
JNull == [kind |-> "null", members |-> <<>>, scalar |-> <<>>]

\* The mutant of the truth value: only None counts as false ("is not None").
PyTruthyUnlessNone(j) == j.kind # "null"

\* Python truth value of a parsed value (the left operand of "or").
PyTruthy(j) ==
    CASE j.kind = "obj"  -> Len(j.members) > 0
      [] j.kind = "arr"  -> Len(j.scalar) > 0
      [] j.kind = "str"  -> j.scalar[1] # ""
      [] j.kind = "num"  -> j.scalar[1] # "0"
      [] j.kind = "bool" -> j.scalar[1] = "true"
      [] j.kind = "null" -> FALSE

\* dict.keys()
Keys(ms) == {ms[i].k : i \in 1..Len(ms)}

\* dict.get(key): the value, None when the key is absent.
DictGet(ms, key) ==
    IF key \in Keys(ms)
    THEN (CHOOSE m \in {ms[i] : i \in 1..Len(ms)} : m.k = key).x
    ELSE PyNone

\* d[key] = x: an existing key keeps its place, a new key goes last.
DictSet(ms, key, x) ==
    IF key \in Keys(ms)
    THEN LET at == CHOOSE i \in 1..Len(ms) : ms[i].k = key
         IN  SubSeq(ms, 1, at - 1) \o <<Member(key, x)>> \o SubSeq(ms, at + 1, Len(ms))
    ELSE Append(ms, Member(key, x))

ANALYSIS_FAILED == "ANALYSIS_FAILED(bunseok silpae)"
AI_COMM_ERROR == "AI_COMM_ERROR(AI tongsin oryu)"

\* json.dumps(d, ensure_ascii=False) of a dict: the text is the member sequence in
\* the dict's order; JsonLoads reads such a text back as the key -> value map.
JsonDumps(ms) == [isnull |-> FALSE, text |-> ms]
SqlNull == [isnull |-> TRUE, text |-> <<>>]
JsonLoads(col) == [key \in Keys(col.text) |-> DictGet(col.text, key)]


(***************************************************************************)
(* The structuring capability (model.generate_content) and the wrapper     *)
(* analyze_recipe_with_gemini.                                             *)
(*                                                                         *)
(* One answer of the capability is either an exception (network error,     *)
(* blocked answer) or a text.  A text is a sequence of tokens:             *)
(*   "ws"       white space                                                *)
(*   "FENCE_JSON" "FENCE"  the code-fence markers, three backquotes with  *)
(*              and without the word json                                  *)
(*   "json"     one complete JSON value (held in the token's value)        *)
(*   "junk"     anything that is not JSON                                  *)
(***************************************************************************)
Tok(t) == [tok |-> t, value |-> JNull]
TJson(j) == [tok |-> "json", value |-> j]
Raises == [exc |-> TRUE, text |-> <<>>]
Says(text) == [exc |-> FALSE, text |-> text]
Bare(j) == Says(<<TJson(j)>>)
Fenced(j) == Says(<<Tok("ws"), Tok("FENCE_JSON"), Tok("ws"), TJson(j), Tok("ws"), Tok("FENCE"), Tok("ws")>>)

\* str.strip(): leading and trailing white space removed.
Strip(text) ==
    LET keep == {i \in 1..Len(text) : text[i].tok # "ws"}
        lo == CHOOSE i \in keep : \A k \in keep : i <= k
        hi == CHOOSE i \in keep : \A k \in keep : i >= k
    IN  IF keep = {} THEN <<>> ELSE SubSeq(text, lo, hi)

\* .replace(FENCE_JSON, "").replace(FENCE, "")
IsNotFence(t) == t.tok \notin {"FENCE_JSON", "FENCE"}
RemoveFences(text) == SelectSeq(text, IsNotFence)

\* json.loads: white space around the value is allowed; anything else but exactly
\* one JSON value is a JSONDecodeError.
IsNotWs(t) == t.tok # "ws"
JsonParse(text) ==
    LET body == SelectSeq(text, IsNotWs)
    IN  IF Len(body) = 1 /\ body[1].tok = "json"
        THEN [raised |-> FALSE, value |-> body[1].value]
        ELSE [raised |-> TRUE, value |-> JNull]

\* One execution of the body of analyze_recipe_with_gemini (lines 164-254): any
\* exception is logged and raised again.
CallOnce(answer) ==
    IF answer.exc
    THEN [raised |-> TRUE, value |-> JNull]
    ELSE JsonParse(RemoveFences(Strip(answer.text)))

StopAfterAttempt == 3

\* wait=wait_exponential(multiplier=1, min=4, max=10)
WaitMultiplier == 1
WaitMin == 4
WaitMax == 10

\* The mutant of the wait: the exponential without its lower and upper limit.
WaitExponentialUnclamped(attempt) == WaitMultiplier * 2 ^ (attempt - 1)

\* The seconds tenacity sleeps after failed attempt number attempt:
\* multiplier * 2^(attempt - 1), not below min and not above max.
WaitExponential(attempt) ==
    LET exp == WaitMultiplier * 2 ^ (attempt - 1)
        capped == IF exp <= WaitMax THEN exp ELSE WaitMax
    IN  IF capped >= WaitMin THEN capped ELSE WaitMin

\* The mutant of the retry loop: it gives up one attempt early.
RECURSIVE RetryEarlyStop(_, _)
RetryEarlyStop(script, n) ==
    LET r == CallOnce(script[n])
        waits == [k \in 1..(n - 1) |-> WaitExponential(k)]
    IN  IF ~r.raised
        THEN [calls |-> n, raised |-> FALSE, result |-> r.value, waits |-> waits]
        ELSE IF n >= StopAfterAttempt - 1
        THEN [calls |-> n, raised |-> TRUE, result |-> JNull, waits |-> waits]
        ELSE RetryEarlyStop(script, n + 1)

\* @retry(stop=stop_after_attempt(3), ...): attempt n calls the body; a return ends
\* the loop with that value; an exception on attempt 3 ends it raising; any other
\* exception waits and goes to attempt n+1.  script[n] is the capability's answer
\* to the n-th call; waits are the sleeps before attempts 2..n.
RECURSIVE Retry(_, _)
Retry(script, n) ==
    LET r == CallOnce(script[n])
        waits == [k \in 1..(n - 1) |-> WaitExponential(k)]
    IN  IF ~r.raised
        THEN [calls |-> n, raised |-> FALSE, result |-> r.value, waits |-> waits]
        ELSE IF n >= StopAfterAttempt
        THEN [calls |-> n, raised |-> TRUE, result |-> JNull, waits |-> waits]
        ELSE Retry(script, n + 1)

analyze_recipe_with_gemini(script) == Retry(script, 1)


(***************************************************************************)
(* The catalog provider (YouTube Data API), scaled down.                   *)
(***************************************************************************)
\* The provider serves at most PageSize items per listing page.
PageSize == 2
DiscoverMaxResults == 10
BackfillMaxResults == 50
ShortFormSeconds == 180

\* The rows of the channels table (init_db.py Channel), in query order.
ChannelRows ==
    << [channel_id |-> "c1", channel_name |-> "one", uploads_playlist_id |-> "p1",
        is_active |-> TRUE, recipe_source |-> "pinned_comment"],
       [channel_id |-> "c2", channel_name |-> "two", uploads_playlist_id |-> "p2",
        is_active |-> TRUE, recipe_source |-> "description"],
       [channel_id |-> "c3", channel_name |-> "three", uploads_playlist_id |-> "p3",
        is_active |-> FALSE, recipe_source |-> "pinned_comment"] >>

\* Another channels table: an active channel that has uploaded nothing, and an
\* active channel whose uploads span two listing pages with a short on the second.
BacklogRows ==
    << [channel_id |-> "c5", channel_name |-> "five", uploads_playlist_id |-> "p5",
        is_active |-> TRUE, recipe_source |-> "description"],
       [channel_id |-> "c4", channel_name |-> "four", uploads_playlist_id |-> "p4",
        is_active |-> TRUE, recipe_source |-> "pinned_comment"] >>

\* Each uploads collection, in the order the provider delivers it.
Uploads(playlist) ==
    CASE playlist = "p1" -> <<"v1", "v3", "v2">>
      [] playlist = "p2" -> <<"v4">>
      [] playlist = "p3" -> <<"v5">>
      [] playlist = "p4" -> <<"v6", "v7", "v8">>
      [] OTHER -> <<>>

AllVideoIds == <<"v1", "v2", "v3", "v4", "v5", "v6", "v7", "v8">>

\* An ISO-8601 duration PT<m>M<s>S, and isodate.parse_duration(..).total_seconds().
Iso(m, sec) == [minutes |-> m, seconds |-> sec]
TotalSeconds(d) == 60 * d.minutes + d.seconds

\* The topLevelComment object a videos().list snippet may embed.
NoTop == [present |-> FALSE, has_snippet |-> FALSE, textDisplay |-> PyNone]
TopNoSnippet == [present |-> TRUE, has_snippet |-> FALSE, textDisplay |-> PyNone]
TopText(x) == [present |-> TRUE, has_snippet |-> TRUE, textDisplay |-> x]

Snippet(title, has_desc, desc, top) ==
    [title |-> title, has_description |-> has_desc, description |-> desc,
     publishedAt |-> "2024-01-01T00:00:00Z", topLevelComment |-> top]

\* videos().list(id=..)["items"][0] for each video of the catalog.
Details(vid) ==
    CASE vid = "v1" -> [duration |-> Iso(1, 0),
                        snippet |-> Snippet("t1", TRUE, PyStr("desc v1"), NoTop)]
      [] vid = "v2" -> [duration |-> Iso(3, 1),
                        snippet |-> Snippet("t2", TRUE, PyStr("desc v2"), NoTop)]
      [] vid = "v3" -> [duration |-> Iso(3, 0),
                        snippet |-> Snippet("t3", TRUE, PyStr("desc v3"), TopText(PyStr("top v3")))]
      [] vid = "v4" -> [duration |-> Iso(0, 59),
                        snippet |-> Snippet("t4", TRUE, PyStr("desc v4"), TopText(PyStr("top v4")))]
      [] vid = "v5" -> [duration |-> Iso(0, 30),
                        snippet |-> Snippet("t5", TRUE, PyStr("desc v5"), NoTop)]
      [] vid = "v6" -> [duration |-> Iso(3, 20),
                        snippet |-> Snippet("t6", TRUE, PyStr("desc v6"), NoTop)]
      [] vid = "v7" -> [duration |-> Iso(0, 10),
                        snippet |-> Snippet("t7", TRUE, PyStr("desc v7"), TopText(PyStr("top v7")))]
      [] vid = "v8" -> [duration |-> Iso(2, 59),
                        snippet |-> Snippet("t8", TRUE, PyStr("desc v8"), NoTop)]

Min(a, b) == IF a <= b THEN a ELSE b

\* playlistItems().list(playlistId, maxResults, pageToken): token 0 is the first
\* page (pageToken=None); nextPageToken 0 stands for "no nextPageToken".
ListUploads(playlist, token, maxResults) ==
    LET all == Uploads(playlist)
        n == Min(maxResults, PageSize)
        last == Min(token + n, Len(all))
    IN  [items |-> SubSeq(all, token + 1, last),
         nextPageToken |-> IF last < Len(all) THEN last ELSE 0]

(***************************************************************************)
(* The source-text resolver.                                               *)
(***************************************************************************)
\* What commentThreads().list can answer for a video: it raises, it has no items,
\* or its first thread carries a textDisplay (possibly empty).
ThreadAnswers(vid) ==
    { [exc |-> TRUE, has_items |-> FALSE, textDisplay |-> PyNone],
      [exc |-> FALSE, has_items |-> FALSE, textDisplay |-> PyNone],
      [exc |-> FALSE, has_items |-> TRUE, textDisplay |-> PyStr("")],
      [exc |-> FALSE, has_items |-> TRUE, textDisplay |-> PyStr("comment")] }

\* get_pinned_comment_text_via_threads: the text, or None.
get_pinned_comment_text_via_threads(thread) ==
    IF thread.exc THEN PyNone
    ELSE IF ~thread.has_items THEN PyNone
    ELSE IF Truthy(thread.textDisplay) THEN thread.textDisplay
    ELSE PyNone

\* video_snippet.get('description', '')
SnippetDescription(snippet) ==
    IF snippet.has_description THEN snippet.description ELSE PyStr("")

\* Mutants of the resolver: the source preference is ignored (always the comment
\* logic); the comment-thread call is issued before the embedded comment is looked
\* at; the description is no fallback of the comment logic.
ResolverIgnoresPreference(video_id, video_snippet, recipe_source, thread) ==
    LET top == video_snippet.topLevelComment
        embedded == top.present /\ top.has_snippet /\ Truthy(top.textDisplay)
        first == IF embedded THEN top.textDisplay
                 ELSE get_pinned_comment_text_via_threads(thread)
        text_result == IF Truthy(first) THEN first ELSE SnippetDescription(video_snippet)
    IN  [raised |-> FALSE,
         threads_called |-> ~embedded,
         text |-> IF text_result.tag = "null" THEN PyStr("") ELSE text_result]

ResolverAsksThreadsFirst(video_id, video_snippet, recipe_source, thread) ==
    LET top == video_snippet.topLevelComment
        embedded == top.present /\ top.has_snippet /\ Truthy(top.textDisplay)
        via == get_pinned_comment_text_via_threads(thread)
        first == IF Truthy(via) THEN via ELSE IF embedded THEN top.textDisplay ELSE PyNone
        text_result ==
            IF recipe_source = "pinned_comment"
            THEN IF Truthy(first) THEN first ELSE SnippetDescription(video_snippet)
            ELSE SnippetDescription(video_snippet)
    IN  [raised |-> FALSE,
         threads_called |-> (recipe_source = "pinned_comment"),
         text |-> IF text_result.tag = "null" THEN PyStr("") ELSE text_result]

ResolverWithoutFallback(video_id, video_snippet, recipe_source, thread) ==
    LET top == video_snippet.topLevelComment
        embedded == top.present /\ top.has_snippet /\ Truthy(top.textDisplay)
        first == IF embedded THEN top.textDisplay
                 ELSE get_pinned_comment_text_via_threads(thread)
        text_result ==
            IF recipe_source = "pinned_comment" THEN first
            ELSE SnippetDescription(video_snippet)
    IN  [raised |-> FALSE,
         threads_called |-> (recipe_source = "pinned_comment" /\ ~embedded),
         text |-> IF text_result.tag = "null" THEN PyStr("") ELSE text_result]

\* get_text_to_analyze(video_id, video_snippet, recipe_source); thread is the answer
\* the comment-thread call gives if it is issued.  threads_called tells whether it was.
get_text_to_analyze(video_id, video_snippet, recipe_source, thread) ==
    LET top == video_snippet.topLevelComment
        embedded == top.present /\ top.has_snippet /\ Truthy(top.textDisplay)
        first == IF embedded THEN top.textDisplay
                 ELSE get_pinned_comment_text_via_threads(thread)
        text_result ==
            IF recipe_source = "pinned_comment"
            THEN IF Truthy(first) THEN first ELSE SnippetDescription(video_snippet)
            ELSE SnippetDescription(video_snippet)
    IN  [raised |-> FALSE,
         threads_called |-> (recipe_source = "pinned_comment" /\ ~embedded),
         text |-> IF text_result.tag = "null" THEN PyStr("") ELSE text_result]

\* A Python call of get_text_to_analyze with the positional arguments args: the
\* function has three required parameters, so any other number is a TypeError.
CallGetTextToAnalyze(args, thread) ==
    IF Len(args) # 3
    THEN [raised |-> TRUE, threads_called |-> FALSE, text |-> PyStr("")]
    ELSE get_text_to_analyze(args[1], args[2], args[3], thread)


(***************************************************************************)
(* The record store and the state of a run.                                *)
(***************************************************************************)
VARIABLES
    channels,           \* the channels table: a sequence of rows
    videos,             \* the committed videos table: video_id -> row
    op,                 \* the operation running: "idle", "discover", "backfill", "process"
    step,               \* where the running operation stands: "list", "item", "page_end", "video"
    active_channels,    \* the channels the run queried at its start
    ch_i,               \* index in active_channels of the channel being worked on
    playlist_response,  \* the last listing answer [items, nextPageToken]
    item_i,             \* index in playlist_response.items of the next video id
    next_page_token,    \* backfill: the page token of the last listing call
    new_videos_batch,   \* backfill: rows built for this page, not yet added to the session
    videos_to_process,  \* process: the ids the query selected
    proc_i,             \* process: index in videos_to_process of the next video
    analysis,           \* process: the last wrapper invocation and what it did
    run_start,          \* the videos table as it was when the running operation started
    last_item,          \* discover/backfill: what happened to the last examined id
    script,             \* wrapper: the capability's answers to the next three calls
    provider,           \* replay: the answers the catalog provider gives to every call
    backfill_runs,      \* replay: how many Backfill-all runs have returned
    resolver_call,      \* resolver: one call of get_text_to_analyze and what it did
    registration,       \* add_channel.py: the last registration and how it ended
    calls,              \* the provider calls, store operations and wrapper invocations
                        \* of the running operation (concurrency: the commits of both
                        \* runs), in order
    compared,           \* comparison: the store a Discover-recent run started from and left
    startup,            \* start of a program: its environment and how its module code ended
    runs,               \* concurrency: the state of each of two Process-pending runs
    served              \* server.py: the request being served and its recipe_list

vars == <<channels, videos, op, step, active_channels, ch_i, playlist_response, item_i,
          next_page_token, new_videos_batch, videos_to_process, proc_i, analysis,
          run_start, last_item, script, provider, backfill_runs, resolver_call,
          registration, calls, compared, startup, runs, served>>

EmptyTable == [v \in {} |-> v]
NoResponse == [items |-> <<>>, nextPageToken |-> 0]
NoAnalysis == [video_id |-> "", calls |-> 0, raised |-> FALSE, result |-> JNull,
               outcome |-> "none", waits |-> <<>>]
NoThread == [exc |-> FALSE, has_items |-> FALSE, textDisplay |-> PyNone]
NoItem == [video_id |-> "", detail |-> "none", duration_sec |-> 0, eligible |-> FALSE,
           outcome |-> "none", text |-> PyStr(""), thread |-> NoThread]
NoProvider == [listing_fails |-> {}, detail |-> <<>>, thread |-> NoThread]
NoResolverCall ==
    [video_snippet |-> Snippet("", FALSE, PyNone, NoTop), recipe_source |-> "",
     thread |-> NoThread, returned |-> FALSE, raised |-> FALSE, threads_called |-> FALSE,
     text |-> PyNone]
NoRegistration == [channel_id |-> <<>>, uploads_playlist_id |-> <<>>, outcome |-> "none"]

NoCompared == [taken |-> FALSE, start |-> EmptyTable, left |-> EmptyTable]
NoStartup == [program |-> "none", state |-> "none", YOUTUBE_API_KEY |-> PyNone,
              GEMINI_API_KEY |-> PyNone, build |-> "none"]
\* Two processes that run collector.py at the same time.
RunIds == {1, 2}
IdleRun == [step |-> "idle", videos_to_process |-> <<>>, proc_i |-> 0,
            session |-> EmptyTable, analysis |-> NoAnalysis, queried_at |-> 0]
NoRuns == [r \in RunIds |-> IdleRun]
\* No request is being served.  A request carries its two query parameters
\* (None when absent); recipe_list holds the rows of the answer.
NoRequest == [endpoint |-> "none", keyword |-> PyNone, channel_id |-> PyNone,
              status_code |-> 0, recipe_list |-> {}]

\* One entry of calls: a listing call ("list": the playlist and the page token), the
\* duplicate check of a video id ("exists"), its detail fetch ("detail"), its
\* comment-thread fetch ("threads"), its row made visible by a commit ("insert"),
\* and one invocation of the wrapper for a video ("analyze": the video id and the
\* number of calls of the capability it made).
Call(kind, id, token) == [kind |-> kind, id |-> id, token |-> token]
\* What one video id adds to calls after its duplicate check found nothing.
FetchCalls(video_id, threads_called, inserted) ==
    <<Call("exists", video_id, 0), Call("detail", video_id, 0)>>
    \o (IF threads_called THEN <<Call("threads", video_id, 0)>> ELSE <<>>)
    \o (IF inserted THEN <<Call("insert", video_id, 0)>> ELSE <<>>)

\* What no operation of the pipeline touches.
OutsideUnchanged ==
    UNCHANGED <<provider, backfill_runs, resolver_call, registration, compared, startup, runs, served>>

\* Video(...) as both ingestion operations build it: the AI columns are not set.
NewVideo(video_id, channel_id, title, text, published_at) ==
    [video_id |-> video_id, channel_id |-> channel_id, title |-> title,
     description |-> text, published_at |-> published_at,
     analysis_status |-> "pending", ai_title |-> PyNone, ai_ingredients |-> SqlNull]

Insert(table, row) ==
    [v \in DOMAIN table \cup {row.video_id} |->
        IF v = row.video_id THEN row ELSE table[v]]

\* The mutant of the channel query: it has no filter.
IsActiveAlways(c) == TRUE

\* filter_by(is_active=True) (collector.py line 265, backfill_videos.py line 163)
IsActive(c) == c.is_active

\* The locals of a run, as they are when no operation runs.
LocalsReset ==
    /\ step' = "none"
    /\ active_channels' = <<>>
    /\ ch_i' = 0
    /\ playlist_response' = NoResponse
    /\ item_i' = 0
    /\ next_page_token' = 0
    /\ new_videos_batch' = <<>>
    /\ videos_to_process' = <<>>
    /\ proc_i' = 0
    /\ analysis' = NoAnalysis
    /\ run_start' = EmptyTable
    /\ last_item' = NoItem
    /\ calls' = <<>>

Init ==
    /\ channels = ChannelRows
    /\ videos = EmptyTable
    /\ op = "idle"
    /\ step = "none"
    /\ active_channels = <<>>
    /\ ch_i = 0
    /\ playlist_response = NoResponse
    /\ item_i = 0
    /\ next_page_token = 0
    /\ new_videos_batch = <<>>
    /\ videos_to_process = <<>>
    /\ proc_i = 0
    /\ analysis = NoAnalysis
    /\ run_start = EmptyTable
    /\ last_item = NoItem
    /\ script = <<>>
    /\ provider = NoProvider
    /\ backfill_runs = 0
    /\ resolver_call = NoResolverCall
    /\ registration = NoRegistration
    /\ calls = <<>>
    /\ compared = NoCompared
    /\ startup = NoStartup
    /\ runs = NoRuns
    /\ served = NoRequest


(***************************************************************************)
(* Control flow shared by the two ingestion operations.                    *)
(***************************************************************************)
ProcessLocalsUnchanged == UNCHANGED <<videos_to_process, proc_i, analysis, script>>

\* The end of the function: the run has returned, its locals are still visible.
RunEnds ==
    /\ op' = op
    /\ step' = "done"

\* The mutant of the channel loop: the loop variable does not advance.
ChannelDoneStays ==
    IF ch_i < Len(active_channels)
    THEN /\ op' = op
         /\ step' = "list"
         /\ ch_i' = ch_i
    ELSE /\ RunEnds
         /\ ch_i' = ch_i

\* The end of one pass of "for channel in channels": on to the next channel, or out.
ChannelDone ==
    IF ch_i < Len(active_channels)
    THEN /\ op' = op
         /\ step' = "list"
         /\ ch_i' = ch_i + 1
    ELSE /\ RunEnds
         /\ ch_i' = ch_i

\* The mutant of the video loop: whatever happened to a video, the run is over.
DiscoverItemEndsRun ==
    /\ RunEnds
    /\ ch_i' = ch_i
    /\ item_i' = item_i

\* The end of one pass of "for video_id in video_ids" of fetch_new_videos.
DiscoverItemDone ==
    IF item_i < Len(playlist_response.items)
    THEN /\ op' = op
         /\ step' = "item"
         /\ ch_i' = ch_i
         /\ item_i' = item_i + 1
    ELSE /\ ChannelDone
         /\ item_i' = item_i

\* A run that has returned, or whose process has died, gives the control back; its
\* locals are gone.
ProcessExit ==
    /\ op # "idle"
    /\ step \in {"done", "crashed"}
    /\ op' = "idle"
    /\ LocalsReset
    /\ UNCHANGED <<channels, videos, script>>

Return ==
    /\ ProcessExit
    /\ OutsideUnchanged

\* The mutant of the duplicate check: it never finds a row.
ExistsNever(table, video_id) == FALSE

\* session.query(Video).filter_by(video_id=video_id) finds a row (collector.py line
\* 292, backfill_videos.py line 204).
Exists(table, video_id) == video_id \in DOMAIN table

(***************************************************************************)
(* Discover-recent: fetch_new_videos (collector.py lines 258-351).         *)
(***************************************************************************)
\* if duration_sec <= 180 (lines 314-315)
DiscoverDurationOk(duration_sec) == duration_sec <= ShortFormSeconds

\* Lines 263-270: the active channels are queried; with none the function returns.
StartDiscover ==
    /\ op = "idle"
    /\ op' = "discover"
    /\ active_channels' = SelectSeq(channels, IsActive)
    /\ IF SelectSeq(channels, IsActive) = <<>>
       THEN step' = "done" /\ ch_i' = 0
       ELSE step' = "list" /\ ch_i' = 1
    /\ run_start' = videos
    /\ UNCHANGED <<channels, videos, playlist_response, item_i, next_page_token,
                   new_videos_batch, last_item, calls>>
    /\ ProcessLocalsUnchanged
    /\ OutsideUnchanged

\* Lines 273-286: one listing call, at most 10 items, no page token.  An exception of
\* the call leaves the channel loop and is caught at line 349: the run is over.
DiscoverListWith(listing_raises) ==
    /\ op = "discover"
    /\ step = "list"
    /\ IF listing_raises
       THEN /\ RunEnds
            /\ ch_i' = ch_i
            /\ last_item' = [NoItem EXCEPT !.outcome = "listing failed"]
            /\ UNCHANGED <<playlist_response, item_i>>
       ELSE LET response == ListUploads(active_channels[ch_i].uploads_playlist_id,
                                        0, DiscoverMaxResults)
            IN  /\ playlist_response' = response
                /\ last_item' = NoItem
                /\ IF response.items = <<>>
                   THEN ChannelDone /\ item_i' = 0
                   ELSE op' = op /\ step' = "item" /\ ch_i' = ch_i /\ item_i' = 1
    /\ calls' = Append(calls, Call("list", active_channels[ch_i].uploads_playlist_id, 0))
    /\ UNCHANGED <<channels, videos, active_channels, next_page_token, new_videos_batch,
                   run_start>>
    /\ ProcessLocalsUnchanged
    /\ OutsideUnchanged

DiscoverList == \E listing_raises \in BOOLEAN : DiscoverListWith(listing_raises)

\* Lines 289-344: one video id of the listing.
DiscoverItemWith(detail, thread) ==
    /\ op = "discover"
    /\ step = "item"
    /\ LET channel == active_channels[ch_i]
           video_id == playlist_response.items[item_i]
       IN  IF Exists(videos, video_id)
           THEN \* lines 292-295: already in the store
                /\ videos' = videos
                /\ last_item' = [NoItem EXCEPT !.video_id = video_id, !.outcome = "exists"]
                /\ calls' = Append(calls, Call("exists", video_id, 0))
           ELSE LET video == Details(video_id)
                    duration_sec == TotalSeconds(video.duration)
                    snippet_data == video.snippet
                    \* line 323: two positional arguments
                    resolved == CallGetTextToAnalyze(<<snippet_data, channel.recipe_source>>,
                                                     thread)
                    new_video == NewVideo(video_id, channel.channel_id, snippet_data.title,
                                          resolved.text, snippet_data.publishedAt)
                    seen == [NoItem EXCEPT !.video_id = video_id, !.detail = detail]
                IN  IF detail # "ok"
                    THEN \* lines 305-307 (no items) and 341-344 (the call raised)
                         /\ videos' = videos
                         /\ last_item' = [seen EXCEPT !.outcome = "skipped"]
                         /\ calls' = calls \o FetchCalls(video_id, FALSE, FALSE)
                    ELSE IF ~DiscoverDurationOk(duration_sec)
                    THEN /\ videos' = videos
                         /\ last_item' = [seen EXCEPT !.duration_sec = duration_sec,
                                                      !.outcome = "too long"]
                         /\ calls' = calls \o FetchCalls(video_id, FALSE, FALSE)
                    ELSE IF resolved.raised
                    THEN \* lines 341-344: logged, rolled back, next id
                         /\ videos' = videos
                         /\ last_item' = [seen EXCEPT !.duration_sec = duration_sec,
                                                      !.eligible = TRUE,
                                                      !.outcome = "error",
                                                      !.thread = thread]
                         /\ calls' = calls \o FetchCalls(video_id, resolved.threads_called,
                                                         FALSE)
                    ELSE \* lines 329-338: add and commit
                         /\ videos' = Insert(videos, new_video)
                         /\ last_item' = [seen EXCEPT !.duration_sec = duration_sec,
                                                      !.eligible = TRUE,
                                                      !.outcome = "inserted",
                                                      !.text = resolved.text,
                                                      !.thread = thread]
                         /\ calls' = calls \o FetchCalls(video_id, resolved.threads_called,
                                                         TRUE)
    /\ DiscoverItemDone
    /\ UNCHANGED <<channels, active_channels, playlist_response, next_page_token,
                   new_videos_batch, run_start>>
    /\ ProcessLocalsUnchanged
    /\ OutsideUnchanged

\* The detail fetch succeeds, returns no items or raises; the comment-thread call,
\* if it is issued, answers one of ThreadAnswers.
DetailAnswers == {"ok", "empty", "raises"}

DiscoverItem ==
    /\ op = "discover"
    /\ step = "item"
    /\ \E detail \in DetailAnswers, thread \in ThreadAnswers(playlist_response.items[item_i]) :
          DiscoverItemWith(detail, thread)


(***************************************************************************)
(* Backfill-all: backfill_all_shorts (backfill_videos.py lines 152-261).   *)
(***************************************************************************)
\* The mutant of the duration filter: the bound is off by one.
BackfillDurationOkOffByOne(duration_sec) == duration_sec <= ShortFormSeconds + 1

\* if duration_sec <= 180 (line 219)
BackfillDurationOk(duration_sec) == duration_sec <= ShortFormSeconds

\* session.add_all(batch); session.commit()
RECURSIVE InsertAll(_, _)
InsertAll(table, batch) ==
    IF batch = <<>> THEN table ELSE InsertAll(Insert(table, Head(batch)), Tail(batch))

\* Lines 157-173: the active channels are queried; with none the function returns.
StartBackfill ==
    /\ op = "idle"
    /\ op' = "backfill"
    /\ active_channels' = SelectSeq(channels, IsActive)
    /\ IF SelectSeq(channels, IsActive) = <<>>
       THEN step' = "done" /\ ch_i' = 0
       ELSE step' = "list" /\ ch_i' = 1
    /\ run_start' = videos
    /\ UNCHANGED <<channels, videos, playlist_response, item_i, next_page_token,
                   new_videos_batch, last_item, calls>>
    /\ ProcessLocalsUnchanged
    /\ OutsideUnchanged

\* Lines 180-199: one listing call with the current page token.  An exception of the
\* call is caught at line 256: rollback, and the run is over.
BackfillListWith(listing_raises) ==
    /\ op = "backfill"
    /\ step = "list"
    /\ IF listing_raises
       THEN /\ RunEnds
            /\ ch_i' = ch_i
            /\ last_item' = [NoItem EXCEPT !.outcome = "listing failed"]
            /\ UNCHANGED <<playlist_response, item_i, next_page_token>>
       ELSE LET response == ListUploads(active_channels[ch_i].uploads_playlist_id,
                                        next_page_token, BackfillMaxResults)
            IN  /\ playlist_response' = response
                /\ last_item' = NoItem
                /\ IF response.items = <<>>
                   THEN ChannelDone /\ item_i' = 0 /\ next_page_token' = 0
                   ELSE /\ op' = op
                        /\ step' = "item"
                        /\ ch_i' = ch_i
                        /\ item_i' = 1
                        /\ next_page_token' = next_page_token
    /\ new_videos_batch' = <<>>
    /\ calls' = Append(calls, Call("list", active_channels[ch_i].uploads_playlist_id,
                                   next_page_token))
    /\ UNCHANGED <<channels, videos, active_channels, run_start>>
    /\ ProcessLocalsUnchanged
    /\ OutsideUnchanged

BackfillList == \E listing_raises \in BOOLEAN : BackfillListWith(listing_raises)

\* Lines 202-236: one video id of the page.  A new short is put in the batch.
BackfillItemWith(detail, thread) ==
    /\ op = "backfill"
    /\ step = "item"
    /\ LET channel == active_channels[ch_i]
           video_id == playlist_response.items[item_i]
       IN  IF Exists(videos, video_id)
           THEN \* lines 204-205
                /\ new_videos_batch' = new_videos_batch
                /\ last_item' = [NoItem EXCEPT !.video_id = video_id, !.outcome = "exists"]
                /\ calls' = Append(calls, Call("exists", video_id, 0))
           ELSE LET video == Details(video_id)
                    duration_sec == TotalSeconds(video.duration)
                    \* line 221: three positional arguments
                    resolved == CallGetTextToAnalyze(
                                    <<video_id, video.snippet, channel.recipe_source>>, thread)
                    new_video == NewVideo(video_id, channel.channel_id, video.snippet.title,
                                          resolved.text, video.snippet.publishedAt)
                    seen == [NoItem EXCEPT !.video_id = video_id, !.detail = detail]
                IN  IF detail # "ok"
                    THEN \* line 213 (no items) and 235-236 (the call raised)
                         /\ new_videos_batch' = new_videos_batch
                         /\ last_item' = [seen EXCEPT !.outcome = "skipped"]
                         /\ calls' = calls \o FetchCalls(video_id, FALSE, FALSE)
                    ELSE IF ~BackfillDurationOk(duration_sec)
                    THEN /\ new_videos_batch' = new_videos_batch
                         /\ last_item' = [seen EXCEPT !.duration_sec = duration_sec,
                                                      !.outcome = "too long"]
                         /\ calls' = calls \o FetchCalls(video_id, FALSE, FALSE)
                    ELSE IF resolved.raised
                    THEN /\ new_videos_batch' = new_videos_batch
                         /\ last_item' = [seen EXCEPT !.duration_sec = duration_sec,
                                                      !.eligible = TRUE,
                                                      !.outcome = "error",
                                                      !.thread = thread]
                         /\ calls' = calls \o FetchCalls(video_id, resolved.threads_called,
                                                         FALSE)
                    ELSE \* lines 224-233
                         /\ new_videos_batch' = Append(new_videos_batch, new_video)
                         /\ last_item' = [seen EXCEPT !.duration_sec = duration_sec,
                                                      !.eligible = TRUE,
                                                      !.outcome = "batched",
                                                      !.text = resolved.text,
                                                      !.thread = thread]
                         /\ calls' = calls \o FetchCalls(video_id, resolved.threads_called,
                                                         FALSE)
    /\ IF item_i < Len(playlist_response.items)
       THEN step' = "item" /\ item_i' = item_i + 1
       ELSE step' = "page_end" /\ item_i' = item_i
    /\ UNCHANGED <<channels, videos, op, active_channels, ch_i, playlist_response,
                   next_page_token, run_start>>
    /\ ProcessLocalsUnchanged
    /\ OutsideUnchanged

BackfillItem ==
    /\ op = "backfill"
    /\ step = "item"
    /\ \E detail \in DetailAnswers, thread \in ThreadAnswers(playlist_response.items[item_i]) :
          BackfillItemWith(detail, thread)

\* The mutant of line 245: the token of the answer is dropped.
NextPageTokenDropped(response) == 0

\* next_page_token = playlist_response.get('nextPageToken') (line 245)
NextPageToken(response) == response.nextPageToken

\* The mutant of lines 246-248: the page loop is never left here.
LastPageNever(token) == FALSE

\* if not next_page_token: break (lines 246-248)
LastPage(token) == token = 0

\* Lines 238-248: the page's batch is added and committed; then the next page, or
\* the end of this channel.
BackfillPageEnd ==
    /\ op = "backfill"
    /\ step = "page_end"
    /\ videos' = InsertAll(videos, new_videos_batch)
    /\ calls' = calls \o [i \in 1..Len(new_videos_batch) |->
                              Call("insert", new_videos_batch[i].video_id, 0)]
    /\ next_page_token' = NextPageToken(playlist_response)
    /\ IF LastPage(NextPageToken(playlist_response))
       THEN ChannelDone
       ELSE op' = op /\ step' = "list" /\ ch_i' = ch_i
    /\ UNCHANGED <<channels, active_channels, playlist_response, item_i, new_videos_batch,
                   last_item, run_start>>
    /\ ProcessLocalsUnchanged
    /\ OutsideUnchanged


(***************************************************************************)
(* Process-pending: process_pending_videos (collector.py lines 355-434).   *)
(***************************************************************************)
Obj3(title, main, sauce) ==
    JObj(<<Member("title", title), Member("main", main), Member("sauce", sauce)>>)

\* {"title": ANALYSIS_FAILED, "main": [], "sauce": []}, the default of line 385
DefaultResult == Obj3(PyStr(ANALYSIS_FAILED), PyList(<<>>), PyList(<<>>))
\* {"title": AI_COMM_ERROR, "main": [], "sauce": []}, the dict of line 428
CommErrorResult == Obj3(PyStr(AI_COMM_ERROR), PyList(<<>>), PyList(<<>>))

\* The mutant of the query: it selects every video, whatever its status.
PendingQueryAllStatuses(table) ==
    LET Selected(v) == v \in DOMAIN table
    IN  SelectSeq(AllVideoIds, Selected)

\* A mutant of the query: failed videos are not selected again.
PendingQueryPendingOnly(table) ==
    LET Selected(v) == v \in DOMAIN table /\ table[v].analysis_status = "pending"
    IN  SelectSeq(AllVideoIds, Selected)

\* Lines 362-364: the videos whose analysis_status is pending or failed.
PendingQuery(table) ==
    LET Selected(v) == v \in DOMAIN table /\ table[v].analysis_status \in {"pending", "failed"}
    IN  SelectSeq(AllVideoIds, Selected)

\* The mutant of the post-check: the title is never overwritten.
ReconcileKeepsTitle(result_json) == result_json

\* Lines 390-396 on the dict result_json (its members): with main and sauce both
\* falsy and a title other than ANALYSIS_FAILED, the title is overwritten.
Reconcile(result_json) ==
    LET main_list_empty == ~Truthy(DictGet(result_json, "main"))
        sauce_list_empty == ~Truthy(DictGet(result_json, "sauce"))
    IN  IF main_list_empty /\ sauce_list_empty
           /\ DictGet(result_json, "title") # PyStr(ANALYSIS_FAILED)
        THEN DictSet(result_json, "title", PyStr(ANALYSIS_FAILED))
        ELSE result_json

\* The mutant of the except branch: only the status is written (the columns keep
\* what they held).
WriteFailedStatusOnly(video) == [video EXCEPT !.analysis_status = "failed"]

\* Lines 415-428: the except branch.
WriteFailed(video) ==
    [video EXCEPT !.analysis_status = "failed",
                  !.ai_title = PyStr(AI_COMM_ERROR),
                  !.ai_ingredients = JsonDumps(CommErrorResult.members)]

\* A mutant of the try branch: the title goes to the column of the source text.
WriteCompletedOverText(video, result_json) ==
    [video EXCEPT !.description = DictGet(result_json, "title"),
                  !.ai_ingredients = JsonDumps(result_json),
                  !.analysis_status = "completed"]

\* A mutant of the try branch: the AI columns are written, the status is not.
WriteCompletedKeepsStatus(video, result_json) ==
    [video EXCEPT !.ai_title = DictGet(result_json, "title"),
                  !.ai_ingredients = JsonDumps(result_json)]

\* Lines 400-410: the try branch after the post-check.
WriteCompleted(video, result_json) ==
    [video EXCEPT !.ai_title = DictGet(result_json, "title"),
                  !.ai_ingredients = JsonDumps(result_json),
                  !.analysis_status = "completed"]

\* Lines 375-428 for one video, given what the wrapper did (called): the row as it
\* is committed at line 432.  A truthy value that is no dict has no .get: the
\* AttributeError of line 390 is caught at line 415 like a failure of the call.
ProcessVideo(video, called) ==
    IF called.raised THEN WriteFailed(video)
    ELSE LET result_json == IF PyTruthy(called.result) THEN called.result ELSE DefaultResult
         IN  IF result_json.kind # "obj"
             THEN WriteFailed(video)
             ELSE WriteCompleted(video, Reconcile(result_json.members))

\* The mutant of the commit: what was written to the row is never committed.
CommitVideoLost(table, row) == table

\* session.commit() of line 432: the row as written is in the store.
CommitVideo(table, row) == [table EXCEPT ![row.video_id] = row]

\* Lines 359-370: the query; with nothing selected the function returns.
StartProcess ==
    /\ op = "idle"
    /\ op' = "process"
    /\ videos_to_process' = PendingQuery(videos)
    /\ IF PendingQuery(videos) = <<>>
       THEN step' = "done" /\ proc_i' = 0
       ELSE step' = "video" /\ proc_i' = 1
    /\ run_start' = videos
    /\ UNCHANGED <<channels, videos, active_channels, ch_i, playlist_response, item_i,
                   next_page_token, new_videos_batch, analysis, last_item, script, calls>>
    /\ OutsideUnchanged

\* One pass of "for video in videos_to_process" (lines 373-432) with the capability
\* answering the wrapper's calls as answers says.
ProcessStep(answers) ==
    /\ op = "process"
    /\ step = "video"
    /\ LET video_id == videos_to_process[proc_i]
           called == analyze_recipe_with_gemini(answers)
           row == ProcessVideo(videos[video_id], called)
       IN  /\ videos' = CommitVideo(videos, row)
           /\ analysis' = [video_id |-> video_id, calls |-> called.calls,
                           raised |-> called.raised, result |-> called.result,
                           outcome |-> row.analysis_status, waits |-> called.waits]
           /\ calls' = Append(calls, Call("analyze", video_id, called.calls))
    /\ IF proc_i < Len(videos_to_process)
       THEN step' = "video" /\ proc_i' = proc_i + 1
       ELSE step' = "done" /\ proc_i' = proc_i
    /\ UNCHANGED <<channels, op, active_channels, ch_i, playlist_response, item_i,
                   next_page_token, new_videos_batch, videos_to_process, run_start,
                   last_item, script>>
    /\ OutsideUnchanged


(***************************************************************************)
(* What the structuring capability may answer.                             *)
(***************************************************************************)
Ingredients == PyList(<<"pork 200g", "onion 1">>)
Good == Obj3(PyStr("jeyuk-bokkeum"), Ingredients, PyList(<<>>))
SauceOnly == Obj3(PyStr("yangnyeom"), PyList(<<>>), PyList(<<"soy sauce 1T">>))
TitledEmpty == Obj3(PyStr("kimchi-jjigae"), PyList(<<>>), PyList(<<>>))
NoTitle == JObj(<<Member("main", Ingredients), Member("sauce", PyList(<<>>))>>)
NullTitle == Obj3(PyNone, Ingredients, PyList(<<>>))
ExtraKey ==
    JObj(<<Member("title", PyStr("jeyuk-bokkeum")), Member("main", Ingredients),
           Member("sauce", PyList(<<>>)), Member("steps", PyList(<<"fry">>))>>)
MainString == Obj3(PyStr("jeyuk-bokkeum"), PyStr("pork 200g, onion 1"), PyList(<<>>))
OnlyTitle == JObj(<<Member("title", PyStr("kimchi-jjigae"))>>)
CommErrorTitle == Obj3(PyStr(AI_COMM_ERROR), Ingredients, PyList(<<>>))

\* The answers that fail in the wrapper: an exception, a text that is not JSON,
\* prose around a fenced object, an empty text.
FailingAnswers ==
    { Raises,
      Says(<<Tok("junk")>>),
      Says(<<Tok("junk"), Tok("ws"), Tok("FENCE_JSON"), TJson(Good), Tok("FENCE")>>),
      Says(<<>>) }

\* StructuredResult values: title a string, main and sauce lists of strings.
StructuredResults == {Good, SauceOnly, TitledEmpty, DefaultResult, CommErrorTitle}

\* Other JSON objects, and JSON values that are no object.
OtherObjects == {NoTitle, NullTitle, ExtraKey, MainString, OnlyTitle, JObj(<<>>)}
NonObjects ==
    {JArr(<<"pork 200g">>), JArr(<<>>), JStr("jeyuk-bokkeum"), JStr(""), JNum("7"),
     JNum("0"), JBool("true"), JBool("false"), JNull}

AllAnswers ==
    FailingAnswers
    \cup {Bare(j) : j \in StructuredResults \cup OtherObjects \cup NonObjects}
    \cup {Fenced(Good), Fenced(TitledEmpty)}

\* The answers the pipeline specification draws from: one of each kind of outcome.
CoreAnswers ==
    {Raises, Says(<<Tok("junk")>>), Fenced(Good), Bare(TitledEmpty), Bare(NoTitle),
     Bare(ExtraKey), Bare(JArr(<<"pork 200g">>))}
CoreScripts ==
    {<<a, b, c>> : a \in CoreAnswers, b \in {Raises, Fenced(Good)}, c \in {Raises, Fenced(Good)}}
AllScripts == {<<a, b, c>> : a \in AllAnswers, b \in AllAnswers, c \in AllAnswers}

ProcessOne == \E answers \in CoreScripts : ProcessStep(answers)

(***************************************************************************)
(* The pipeline: any sequence of runs of the three operations, one at a    *)
(* time (single instance, no interleaving).                                *)
(***************************************************************************)
Next ==
    \/ StartDiscover
    \/ DiscoverList
    \/ DiscoverItem
    \/ StartBackfill
    \/ BackfillList
    \/ BackfillItem
    \/ BackfillPageEnd
    \/ StartProcess
    \/ ProcessOne
    \/ Return

Spec == Init /\ [][Next]_vars

(***************************************************************************)
(* The pipeline with runs that die: the process is killed, or an exception *)
(* leaves the operation (collector.py lines 455-461: rollback, close).     *)
(* What the session has not committed is lost; the store keeps what was    *)
(* committed.                                                              *)
(***************************************************************************)
Crash ==
    /\ op # "idle"
    /\ step \notin {"done", "crashed"}
    /\ step' = "crashed"
    /\ UNCHANGED <<channels, videos, op, active_channels, ch_i, playlist_response, item_i,
                   next_page_token, new_videos_batch, videos_to_process, proc_i, analysis,
                   run_start, last_item, script, calls>>
    /\ OutsideUnchanged

NextCrash ==
    \/ StartDiscover
    \/ DiscoverList
    \/ DiscoverItem
    \/ StartBackfill
    \/ BackfillList
    \/ BackfillItem
    \/ BackfillPageEnd
    \/ StartProcess
    \/ ProcessOne
    \/ Return
    \/ Crash

SpecCrash == Init /\ [][NextCrash]_vars

(***************************************************************************)
(* The pipeline with commits that fail.  session.commit() of line 432 is   *)
(* in the video loop of process_pending_videos but after its try/except:   *)
(* its exception leaves the function and is caught in __main__ (lines      *)
(* 455-461: rollback, close).  session.commit() of backfill_videos.py line *)
(* 241 is after the per-video try/except: its exception is caught at line  *)
(* 256 (rollback), and the function returns.  The commit of Discover-recent*)
(* (collector.py line 338) is never reached: line 323 raises before it.    *)
(***************************************************************************)
\* One pass of the video loop whose commit raises: the wrapper was called, what was
\* written to the row is rolled back, the loop is left.
ProcessCommitFails(answers) ==
    /\ op = "process"
    /\ step = "video"
    /\ LET video_id == videos_to_process[proc_i]
           called == analyze_recipe_with_gemini(answers)
       IN  /\ analysis' = [video_id |-> video_id, calls |-> called.calls,
                        raised |-> called.raised, result |-> called.result,
                        outcome |-> "commit failed", waits |-> called.waits]
           /\ calls' = Append(calls, Call("analyze", video_id, called.calls))
    /\ step' = "crashed"
    /\ UNCHANGED <<channels, videos, op, active_channels, ch_i, playlist_response, item_i,
                   next_page_token, new_videos_batch, videos_to_process, proc_i, run_start,
                   last_item, script>>
    /\ OutsideUnchanged

ProcessOneCommitFails == \E answers \in CoreScripts : ProcessCommitFails(answers)

\* The end of a page whose batch is not empty and whose commit raises: nothing of
\* the batch is in the store, the page loop and the channel loop are left.
BackfillCommitFails ==
    /\ op = "backfill"
    /\ step = "page_end"
    /\ new_videos_batch # <<>>
    /\ RunEnds
    /\ last_item' = [last_item EXCEPT !.outcome = "commit failed"]
    /\ UNCHANGED <<channels, videos, active_channels, ch_i, playlist_response, item_i,
                   next_page_token, new_videos_batch, run_start, calls>>
    /\ ProcessLocalsUnchanged
    /\ OutsideUnchanged

NextCommitFailure ==
    \/ StartDiscover
    \/ DiscoverList
    \/ DiscoverItem
    \/ StartBackfill
    \/ BackfillList
    \/ BackfillItem
    \/ BackfillPageEnd
    \/ StartProcess
    \/ ProcessOne
    \/ Return
    \/ ProcessOneCommitFails
    \/ BackfillCommitFails

SpecCommitFailure == Init /\ [][NextCommitFailure]_vars

(***************************************************************************)
(* One pass of Process-pending over one pending video, for every script of *)
(* three answers of the capability.                                        *)
(***************************************************************************)
UnitVideo == NewVideo("v1", "c1", "t1", PyStr("comment"), "2024-01-01T00:00:00Z")

InitUnit ==
    /\ channels = ChannelRows
    /\ videos = Insert(EmptyTable, UnitVideo)
    /\ op = "process"
    /\ step = "video"
    /\ active_channels = <<>>
    /\ ch_i = 0
    /\ playlist_response = NoResponse
    /\ item_i = 0
    /\ next_page_token = 0
    /\ new_videos_batch = <<>>
    /\ videos_to_process = PendingQuery(Insert(EmptyTable, UnitVideo))
    /\ proc_i = 1
    /\ analysis = NoAnalysis
    /\ run_start = Insert(EmptyTable, UnitVideo)
    /\ last_item = NoItem
    /\ script \in AllScripts
    /\ provider = NoProvider
    /\ backfill_runs = 0
    /\ resolver_call = NoResolverCall
    /\ registration = NoRegistration
    /\ calls = <<>>
    /\ compared = NoCompared
    /\ startup = NoStartup
    /\ runs = NoRuns
    /\ served = NoRequest

ProcessScripted == ProcessStep(script)

NextUnit == ProcessScripted

SpecUnit == InitUnit /\ [][NextUnit]_vars

(***************************************************************************)
(* Backfill-all run again and again against an unchanged catalog: the      *)
(* provider gives the same answer to the same call in every run.           *)
(***************************************************************************)
\* Runs are counted up to this number.
MaxBackfillRuns == 2

\* The answers of an unchanging provider: the listing calls (playlist, page token)
\* that raise, the outcome of each video's detail fetch, and the comment threads.
Providers ==
    [listing_fails : {{}, {<<"p1", 0>>}, {<<"p1", PageSize>>}, {<<"p2", 0>>}},
     detail : [{"v1", "v2", "v3", "v4"} -> DetailAnswers],
     thread : {t \in ThreadAnswers("v1") : t.exc \/ Truthy(t.textDisplay)}]

BacklogProviders ==
    [listing_fails : {{}, {<<"p4", 0>>}, {<<"p4", PageSize>>}},
     detail : [{"v6", "v7", "v8"} -> DetailAnswers],
     thread : {t \in ThreadAnswers("v8") : t.exc \/ Truthy(t.textDisplay)}]

InitReplay ==
    /\ \/ channels = ChannelRows /\ provider \in Providers
       \/ channels = BacklogRows /\ provider \in BacklogProviders
    /\ videos = EmptyTable
    /\ op = "idle"
    /\ step = "none"
    /\ active_channels = <<>>
    /\ ch_i = 0
    /\ playlist_response = NoResponse
    /\ item_i = 0
    /\ next_page_token = 0
    /\ new_videos_batch = <<>>
    /\ videos_to_process = <<>>
    /\ proc_i = 0
    /\ analysis = NoAnalysis
    /\ run_start = EmptyTable
    /\ last_item = NoItem
    /\ script = <<>>
    /\ backfill_runs = 0
    /\ resolver_call = NoResolverCall
    /\ registration = NoRegistration
    /\ calls = <<>>
    /\ compared = NoCompared
    /\ startup = NoStartup
    /\ runs = NoRuns
    /\ served = NoRequest

ReplayList ==
    /\ op = "backfill"
    /\ step = "list"
    /\ BackfillListWith(<<active_channels[ch_i].uploads_playlist_id, next_page_token>>
                            \in provider.listing_fails)

ReplayItem ==
    /\ op = "backfill"
    /\ step = "item"
    /\ BackfillItemWith(provider.detail[playlist_response.items[item_i]], provider.thread)

\* backfill_all_shorts has returned (lines 254-261).
ReplayReturn ==
    /\ ProcessExit
    /\ backfill_runs' = Min(backfill_runs + 1, MaxBackfillRuns)
    /\ UNCHANGED <<provider, resolver_call, registration, compared, startup, runs, served>>

NextReplay ==
    \/ StartBackfill
    \/ ReplayList
    \/ ReplayItem
    \/ BackfillPageEnd
    \/ ReplayReturn

SpecReplay == InitReplay /\ [][NextReplay]_vars

\* The replay with a run that always takes its next step: every provider call
\* returns or raises, and the function runs on to its next statement.
SpecReplayFair ==
    /\ InitReplay
    /\ [][NextReplay]_vars
    /\ WF_vars(ReplayList)
    /\ WF_vars(ReplayItem)
    /\ WF_vars(BackfillPageEnd)

(***************************************************************************)
(* Discover-recent and Backfill-all against the same unchanging provider:  *)
(* what a Discover-recent run started from and left is kept when it        *)
(* returns, for the Backfill-all runs that start from the same store.      *)
(***************************************************************************)
InitCompare ==
    /\ channels = ChannelRows
    /\ provider \in Providers
    /\ videos = EmptyTable
    /\ op = "idle"
    /\ step = "none"
    /\ active_channels = <<>>
    /\ ch_i = 0
    /\ playlist_response = NoResponse
    /\ item_i = 0
    /\ next_page_token = 0
    /\ new_videos_batch = <<>>
    /\ videos_to_process = <<>>
    /\ proc_i = 0
    /\ analysis = NoAnalysis
    /\ run_start = EmptyTable
    /\ last_item = NoItem
    /\ script = <<>>
    /\ backfill_runs = 0
    /\ resolver_call = NoResolverCall
    /\ registration = NoRegistration
    /\ calls = <<>>
    /\ compared = NoCompared
    /\ startup = NoStartup
    /\ runs = NoRuns
    /\ served = NoRequest

ReplayDiscoverList ==
    /\ op = "discover"
    /\ step = "list"
    /\ DiscoverListWith(<<active_channels[ch_i].uploads_playlist_id, 0>>
                            \in provider.listing_fails)

ReplayDiscoverItem ==
    /\ op = "discover"
    /\ step = "item"
    /\ DiscoverItemWith(provider.detail[playlist_response.items[item_i]], provider.thread)

\* fetch_new_videos or backfill_all_shorts has returned.
CompareReturn ==
    /\ ProcessExit
    /\ compared' = IF op = "discover"
                   THEN [taken |-> TRUE, start |-> run_start, left |-> videos]
                   ELSE compared
    /\ UNCHANGED <<provider, backfill_runs, resolver_call, registration, startup, runs, served>>

NextCompare ==
    \/ StartDiscover
    \/ ReplayDiscoverList
    \/ ReplayDiscoverItem
    \/ StartBackfill
    \/ ReplayList
    \/ ReplayItem
    \/ BackfillPageEnd
    \/ CompareReturn

SpecCompare == InitCompare /\ [][NextCompare]_vars

(***************************************************************************)
(* The start of a program: the module-level code of collector.py (lines    *)
(* 16-47) and of backfill_videos.py (lines 15-41) runs before __main__.    *)
(***************************************************************************)
\* os.environ.get(..): the variable is not set, is set to nothing, or holds a key.
KeyValues == {PyNone, PyStr(""), PyStr("key")}

\* The mutant of the key check: it never finds a key missing.
MissingNever(key) == FALSE

\* if not GEMINI_API_KEY / if not YOUTUBE_API_KEY
Missing(key) == ~Truthy(key)

InitStartup ==
    /\ channels = ChannelRows
    /\ videos \in {EmptyTable, Insert(EmptyTable, UnitVideo)}
    /\ op = "idle"
    /\ step = "none"
    /\ active_channels = <<>>
    /\ ch_i = 0
    /\ playlist_response = NoResponse
    /\ item_i = 0
    /\ next_page_token = 0
    /\ new_videos_batch = <<>>
    /\ videos_to_process = <<>>
    /\ proc_i = 0
    /\ analysis = NoAnalysis
    /\ run_start = EmptyTable
    /\ last_item = NoItem
    /\ script = <<>>
    /\ provider = NoProvider
    /\ backfill_runs = 0
    /\ resolver_call = NoResolverCall
    /\ registration = NoRegistration
    /\ calls = <<>>
    /\ compared = NoCompared
    /\ startup \in [program : {"collector", "backfill"}, state : {"not started"},
                     YOUTUBE_API_KEY : KeyValues, GEMINI_API_KEY : KeyValues,
                     build : {"ok", "raises"}]
    /\ runs = NoRuns
    /\ served = NoRequest

\* The module-level code: exit() on a missing key or a failed build of the client.
\* collector.py checks the structuring key, then the catalog key (lines 31-44);
\* backfill_videos.py checks the catalog key only (lines 22-38).
LoadModule ==
    /\ startup.state = "not started"
    /\ LET halts ==
               \/ startup.program = "collector" /\ Missing(startup.GEMINI_API_KEY)
               \/ Missing(startup.YOUTUBE_API_KEY)
               \/ startup.build = "raises"
       IN  startup' = [startup EXCEPT !.state = IF halts THEN "halted" ELSE "loaded"]
    /\ UNCHANGED <<channels, videos, op, step, active_channels, ch_i, playlist_response,
                   item_i, next_page_token, new_videos_batch, videos_to_process, proc_i,
                   analysis, run_start, last_item, script, provider, backfill_runs,
                   resolver_call, registration, calls, compared, runs, served>>

\* collector.py __main__ (lines 438-463): fetch_new_videos, then
\* process_pending_videos; backfill_videos.py __main__: backfill_all_shorts.
MainDiscover ==
    /\ startup.program = "collector"
    /\ startup.state = "loaded"
    /\ StartDiscover

MainProcess ==
    /\ startup.program = "collector"
    /\ startup.state = "first returned"
    /\ StartProcess

MainBackfill ==
    /\ startup.program = "backfill"
    /\ startup.state = "loaded"
    /\ StartBackfill

\* A function called by __main__ has returned.
MainReturn ==
    /\ ProcessExit
    /\ startup' = [startup EXCEPT !.state = IF op = "discover" THEN "first returned"
                                            ELSE "exited"]
    /\ UNCHANGED <<provider, backfill_runs, resolver_call, registration, compared, runs, served>>

NextStartup ==
    \/ LoadModule
    \/ MainDiscover
    \/ DiscoverList
    \/ DiscoverItem
    \/ MainProcess
    \/ ProcessOne
    \/ MainBackfill
    \/ BackfillList
    \/ BackfillItem
    \/ BackfillPageEnd
    \/ MainReturn

SpecStartup == InitStartup /\ [][NextStartup]_vars

(***************************************************************************)
(* Two Process-pending runs at the same time on one store, each with its   *)
(* own session (collector.py line 446).  A session keeps the rows as it    *)
(* loaded them; its commit expires them (sessionmaker's default), so the   *)
(* next access reads the row again.  A commit writes the columns whose     *)
(* value differs from the one the session loaded.                          *)
(***************************************************************************)
\* The mutant of the commit: a row whose status is no longer the one the session
\* loaded is left as it is.
FlushIfUnclaimed(committed, loaded, written) ==
    IF committed.analysis_status # loaded.analysis_status THEN committed ELSE written

\* The UPDATE of session.commit() (line 432) for one row: the three columns the
\* pass assigns, each written when its value is not the loaded one.
Flush(committed, loaded, written) ==
    [committed EXCEPT
        !.analysis_status = IF written.analysis_status # loaded.analysis_status
                            THEN written.analysis_status ELSE @,
        !.ai_title = IF written.ai_title # loaded.ai_title THEN written.ai_title ELSE @,
        !.ai_ingredients = IF written.ai_ingredients # loaded.ai_ingredients
                           THEN written.ai_ingredients ELSE @]

\* The capability's answers in the concurrent runs: every call fails, the first
\* call returns a recipe, the first call returns an object without title.
ConcurrentScripts ==
    { <<Raises, Raises, Raises>>,
      <<Fenced(Good), Raises, Raises>>,
      <<Bare(NoTitle), Raises, Raises>> }

SecondVideo == NewVideo("v3", "c1", "t3", PyStr("top v3"), "2024-01-01T00:00:00Z")

\* The store when the runs start: v1 pending; v3 pending, or failed by an earlier run.
InitConcurrent ==
    /\ channels = ChannelRows
    /\ videos \in { Insert(Insert(EmptyTable, UnitVideo), SecondVideo),
                     Insert(Insert(EmptyTable, UnitVideo), WriteFailed(SecondVideo)) }
    /\ op = "idle"
    /\ step = "none"
    /\ active_channels = <<>>
    /\ ch_i = 0
    /\ playlist_response = NoResponse
    /\ item_i = 0
    /\ next_page_token = 0
    /\ new_videos_batch = <<>>
    /\ videos_to_process = <<>>
    /\ proc_i = 0
    /\ analysis = NoAnalysis
    /\ run_start = EmptyTable
    /\ last_item = NoItem
    /\ script = <<>>
    /\ provider = NoProvider
    /\ backfill_runs = 0
    /\ resolver_call = NoResolverCall
    /\ registration = NoRegistration
    /\ calls = <<>>
    /\ compared = NoCompared
    /\ startup = NoStartup
    /\ runs = NoRuns
    /\ served = NoRequest

ConcurrentUnchanged ==
    UNCHANGED <<channels, op, step, active_channels, ch_i, playlist_response, item_i,
                next_page_token, new_videos_batch, videos_to_process, proc_i, analysis,
                run_start, last_item, script, provider, backfill_runs, resolver_call,
                registration, compared, startup, served>>

\* Lines 362-370 in run r: the query loads the selected rows into the session.
ConcurrentStart(r) ==
    /\ runs[r].step = "idle"
    /\ LET selected == PendingQuery(videos)
       IN  runs' = [runs EXCEPT ![r] =
                      [step |-> IF selected = <<>> THEN "done" ELSE "video",
                       videos_to_process |-> selected,
                       proc_i |-> IF selected = <<>> THEN 0 ELSE 1,
                       session |-> [v \in {selected[i] : i \in 1..Len(selected)} |-> videos[v]],
                       analysis |-> NoAnalysis,
                       queried_at |-> Len(calls)]]
    /\ UNCHANGED <<videos, calls>>
    /\ ConcurrentUnchanged

\* Lines 373-378 in run r: the pass reads the row; an expired row is read from the
\* store as it is now.
ConcurrentLoad(r) ==
    /\ runs[r].step = "video"
    /\ LET video_id == runs[r].videos_to_process[runs[r].proc_i]
       IN  runs' = [runs EXCEPT
                      ![r].step = "call",
                      ![r].session = IF video_id \in DOMAIN runs[r].session
                                     THEN runs[r].session
                                     ELSE Insert(runs[r].session, videos[video_id])]
    /\ UNCHANGED <<videos, calls>>
    /\ ConcurrentUnchanged

\* Lines 381-432 in run r: the wrapper is invoked, the columns are assigned on the
\* row the session holds, and the commit writes them.
ConcurrentCommit(r, answers) ==
    /\ runs[r].step = "call"
    /\ LET video_id == runs[r].videos_to_process[runs[r].proc_i]
           loaded == runs[r].session[video_id]
           called == analyze_recipe_with_gemini(answers)
           written == ProcessVideo(loaded, called)
           last == runs[r].proc_i = Len(runs[r].videos_to_process)
       IN  /\ videos' = [videos EXCEPT ![video_id] = Flush(@, loaded, written)]
           /\ calls' = Append(calls, Call(written.analysis_status, video_id, r))
           /\ runs' = [runs EXCEPT
                          ![r].step = IF last THEN "done" ELSE "video",
                          ![r].proc_i = IF last THEN @ ELSE @ + 1,
                          ![r].session = EmptyTable,
                          ![r].analysis =
                              [video_id |-> video_id, calls |-> called.calls,
                               raised |-> called.raised, result |-> called.result,
                               outcome |-> written.analysis_status,
                               waits |-> called.waits]]
    /\ ConcurrentUnchanged

ConcurrentQuery == \E r \in RunIds : ConcurrentStart(r)
ConcurrentRead == \E r \in RunIds : ConcurrentLoad(r)
ConcurrentPass == \E r \in RunIds, answers \in ConcurrentScripts : ConcurrentCommit(r, answers)

NextConcurrent ==
    \/ ConcurrentQuery
    \/ ConcurrentRead
    \/ ConcurrentPass

SpecConcurrent == InitConcurrent /\ [][NextConcurrent]_vars

(***************************************************************************)
(* The two ingestion operations on every setting of the channels' active   *)
(* flags, from none active to all active.                                  *)
(***************************************************************************)
ChannelTables ==
    { [i \in 1..Len(ChannelRows) |-> [ChannelRows[i] EXCEPT !.is_active = flags[i]]] :
        flags \in [1..Len(ChannelRows) -> BOOLEAN] }

InitFlags ==
    /\ channels \in ChannelTables
    /\ videos = EmptyTable
    /\ op = "idle"
    /\ step = "none"
    /\ active_channels = <<>>
    /\ ch_i = 0
    /\ playlist_response = NoResponse
    /\ item_i = 0
    /\ next_page_token = 0
    /\ new_videos_batch = <<>>
    /\ videos_to_process = <<>>
    /\ proc_i = 0
    /\ analysis = NoAnalysis
    /\ run_start = EmptyTable
    /\ last_item = NoItem
    /\ script = <<>>
    /\ provider = NoProvider
    /\ backfill_runs = 0
    /\ resolver_call = NoResolverCall
    /\ registration = NoRegistration
    /\ calls = <<>>
    /\ compared = NoCompared
    /\ startup = NoStartup
    /\ runs = NoRuns
    /\ served = NoRequest

NextFlags ==
    \/ StartDiscover
    \/ DiscoverList
    \/ DiscoverItem
    \/ StartBackfill
    \/ BackfillList
    \/ BackfillItem
    \/ BackfillPageEnd
    \/ Return

SpecFlags == InitFlags /\ [][NextFlags]_vars

(***************************************************************************)
(* One call of the resolver, for every snippet, source preference and      *)
(* answer of the comment-thread call.                                      *)
(***************************************************************************)
\* The snippets: the description key absent, null, empty or a text; the embedded
\* top comment absent, without inner snippet, with a null, empty or real text.
ResolverSnippets ==
    { Snippet("t1", has_desc, desc, top) :
        has_desc \in BOOLEAN,
        desc \in {PyNone, PyStr(""), PyStr("desc")},
        top \in {NoTop, TopNoSnippet, TopText(PyNone), TopText(PyStr("")),
                 TopText(PyStr("top"))} }

\* The answers of commentThreads().list, a first thread without textDisplay included.
ResolverThreads ==
    ThreadAnswers("v1") \cup {[exc |-> FALSE, has_items |-> TRUE, textDisplay |-> PyNone]}

ResolverSources == {"description", "pinned_comment"}

InitResolver ==
    /\ channels = ChannelRows
    /\ videos = EmptyTable
    /\ op = "idle"
    /\ step = "none"
    /\ active_channels = <<>>
    /\ ch_i = 0
    /\ playlist_response = NoResponse
    /\ item_i = 0
    /\ next_page_token = 0
    /\ new_videos_batch = <<>>
    /\ videos_to_process = <<>>
    /\ proc_i = 0
    /\ analysis = NoAnalysis
    /\ run_start = EmptyTable
    /\ last_item = NoItem
    /\ script = <<>>
    /\ provider = NoProvider
    /\ backfill_runs = 0
    /\ \E snippet \in ResolverSnippets, source \in ResolverSources, thread \in ResolverThreads :
          /\ snippet.has_description \/ snippet.description = PyNone
          /\ resolver_call = [NoResolverCall EXCEPT !.video_snippet = snippet,
                                                    !.recipe_source = source,
                                                    !.thread = thread]
    /\ registration = NoRegistration
    /\ calls = <<>>
    /\ compared = NoCompared
    /\ startup = NoStartup
    /\ runs = NoRuns
    /\ served = NoRequest

\* text_to_analyze = get_text_to_analyze(video_id, video['snippet'], channel.recipe_source)
ResolveText ==
    /\ ~resolver_call.returned
    /\ ~resolver_call.raised
    /\ LET r == CallGetTextToAnalyze(<<"v1", resolver_call.video_snippet,
                                       resolver_call.recipe_source>>,
                                     resolver_call.thread)
       IN  resolver_call' = [resolver_call EXCEPT !.returned = ~r.raised,
                                                  !.raised = r.raised,
                                                  !.threads_called = r.threads_called,
                                                  !.text = r.text]
    /\ UNCHANGED <<channels, videos, op, step, active_channels, ch_i, playlist_response,
                   item_i, next_page_token, new_videos_batch, videos_to_process, proc_i,
                   analysis, run_start, last_item, script, provider, backfill_runs,
                   registration, calls, compared, startup, runs, served>>

NextResolver == ResolveText

SpecResolver == InitResolver /\ [][NextResolver]_vars


(***************************************************************************)
(* Channel registration: add_new_channel (add_channel.py lines 43-97), run  *)
(* any number of times on a channels table that starts empty.  What the    *)
(* operator types is a sequence of characters.                             *)
(***************************************************************************)
\* str.strip() of typed characters, and the slice cs[n:].
StripChars(cs) ==
    LET keep == {i \in 1..Len(cs) : cs[i] # " "}
        lo == CHOOSE i \in keep : \A k \in keep : i <= k
        hi == CHOOSE i \in keep : \A k \in keep : i >= k
    IN  IF keep = {} THEN <<>> ELSE SubSeq(cs, lo, hi)
SliceFrom(cs, n) == SubSeq(cs, n + 1, Len(cs))

\* f"UU{channel_id[2:]}" (line 53)
DefaultUploadsId(channel_id) == <<"U", "U">> \o SliceFrom(channel_id, 2)

\* The mutant of the table's constraints: only the primary key is enforced.
PrimaryKeyErrorOnly(table, row) ==
    \E i \in 1..Len(table) : table[i].channel_id = row.channel_id

\* session.commit() raises IntegrityError: channel_id is the primary key and
\* uploads_playlist_id is unique (init_db.py lines 28 and 30).
IntegrityError(table, row) ==
    \E i \in 1..Len(table) :
        \/ table[i].channel_id = row.channel_id
        \/ table[i].uploads_playlist_id = row.uploads_playlist_id

\* What the operator may type at the four prompts.
ChannelIdInputs ==
    {<<"U", "C", "a">>, <<" ", "U", "C", "a", " ">>, <<"U", "C", "b">>, <<"X", "X", "a">>}
ChannelNameInputs == {<<"n">>}
UploadsIdInputs == {<<>>, <<" ">>, <<"U", "U", "a">>, <<"P", "L", "z">>}
SourceChoiceInputs == {<<>>, <<"1">>, <<"2">>, <<" ", "2">>, <<"9">>}

InitChannels ==
    /\ channels = <<>>
    /\ videos = EmptyTable
    /\ op = "idle"
    /\ step = "none"
    /\ active_channels = <<>>
    /\ ch_i = 0
    /\ playlist_response = NoResponse
    /\ item_i = 0
    /\ next_page_token = 0
    /\ new_videos_batch = <<>>
    /\ videos_to_process = <<>>
    /\ proc_i = 0
    /\ analysis = NoAnalysis
    /\ run_start = EmptyTable
    /\ last_item = NoItem
    /\ script = <<>>
    /\ provider = NoProvider
    /\ backfill_runs = 0
    /\ resolver_call = NoResolverCall
    /\ registration = NoRegistration
    /\ calls = <<>>
    /\ compared = NoCompared
    /\ startup = NoStartup
    /\ runs = NoRuns
    /\ served = NoRequest

\* Lines 47-97 with the four typed inputs.
RegisterChannel(id_typed, name_typed, uploads_typed, choice_typed) ==
    LET channel_id == StripChars(id_typed)
        channel_name == StripChars(name_typed)
        default_uploads_id == DefaultUploadsId(channel_id)
        uploads_id == IF StripChars(uploads_typed) = <<>>
                      THEN default_uploads_id
                      ELSE StripChars(uploads_typed)
        source_choice == StripChars(choice_typed)
        recipe_source == IF source_choice = <<"2">> THEN "pinned_comment" ELSE "description"
        new_channel == [channel_id |-> channel_id, channel_name |-> channel_name,
                        uploads_playlist_id |-> uploads_id, is_active |-> TRUE,
                        recipe_source |-> recipe_source]
        asked == [channel_id |-> channel_id, uploads_playlist_id |-> uploads_id,
                  outcome |-> "none"]
    IN  /\ IF IntegrityError(channels, new_channel)
           THEN \* lines 90-94: rollback
                /\ channels' = channels
                /\ registration' = [asked EXCEPT !.outcome = "rejected"]
           ELSE \* lines 83-88: add and commit
                /\ channels' = Append(channels, new_channel)
                /\ registration' = [asked EXCEPT !.outcome = "registered"]
        /\ UNCHANGED <<videos, op, step, active_channels, ch_i, playlist_response, item_i,
                       next_page_token, new_videos_batch, videos_to_process, proc_i,
                       analysis, run_start, last_item, script, provider, backfill_runs,
                       resolver_call, calls, compared, startup, runs, served>>

add_new_channel ==
    \E id_typed \in ChannelIdInputs, name_typed \in ChannelNameInputs,
       uploads_typed \in UploadsIdInputs, choice_typed \in SourceChoiceInputs :
        RegisterChannel(id_typed, name_typed, uploads_typed, choice_typed)

NextChannels == add_new_channel

SpecChannels == InitChannels /\ [][NextChannels]_vars


(***************************************************************************)
(* Process-pending run again and again on a store that ingestion has       *)
(* filled (python collector.py process, collector.py lines 453-454): two   *)
(* videos of channel c1, pending, or already written by an earlier run.    *)
(* A started run takes its steps (weak fairness): the loop of lines        *)
(* 373-432 has no wait but the wrapper's sleeps.                           *)
(***************************************************************************)
RepeatStores ==
    { Insert(Insert(EmptyTable, UnitVideo), SecondVideo),
      Insert(Insert(EmptyTable, UnitVideo), WriteFailed(SecondVideo)),
      Insert(Insert(EmptyTable, WriteFailed(UnitVideo)),
             WriteCompleted(SecondVideo, Good.members)) }

InitRepeat ==
    /\ channels = ChannelRows
    /\ videos \in RepeatStores
    /\ op = "idle"
    /\ step = "none"
    /\ active_channels = <<>>
    /\ ch_i = 0
    /\ playlist_response = NoResponse
    /\ item_i = 0
    /\ next_page_token = 0
    /\ new_videos_batch = <<>>
    /\ videos_to_process = <<>>
    /\ proc_i = 0
    /\ analysis = NoAnalysis
    /\ run_start = EmptyTable
    /\ last_item = NoItem
    /\ script = <<>>
    /\ provider = NoProvider
    /\ backfill_runs = 0
    /\ resolver_call = NoResolverCall
    /\ registration = NoRegistration
    /\ calls = <<>>
    /\ compared = NoCompared
    /\ startup = NoStartup
    /\ runs = NoRuns
    /\ served = NoRequest

NextRepeat ==
    \/ StartProcess
    \/ ProcessOne
    \/ Return

SpecRepeat == InitRepeat /\ [][NextRepeat]_vars

SpecRepeatFair ==
    /\ InitRepeat
    /\ [][NextRepeat]_vars
    /\ WF_vars(StartProcess)
    /\ WF_vars(ProcessOne)
    /\ WF_vars(Return)


(***************************************************************************)
(* The API server (server.py): get_recommendations (lines 92-124) and      *)
(* search_recipes (lines 137-208) read the store the pipeline writes.      *)
(* A request reads its rows in one query, from one committed state of the  *)
(* store, and is over before the pipeline's next step.  The search log     *)
(* that search_recipes adds (lines 190-199) is a table of its own and has  *)
(* no part in the answer.                                                  *)
(***************************************************************************)
\* .limit(3) of line 111 and .limit(50) of line 182
RecommendLimit == 3
SearchLimit == 50

\* SQL "column != literal": not true of a NULL column.
SqlNotEqual(col, literal) == col # PyNone /\ col # PyStr(literal)

\* The mutant of the filter: the titles are not looked at.
RecipeFilterStatusOnly(video) == video.analysis_status = "completed"

\* .filter(...) of lines 107-111 and 163-167.
RecipeFilter(video) ==
    /\ video.analysis_status = "completed"
    /\ SqlNotEqual(video.ai_title, ANALYSIS_FAILED)
    /\ SqlNotEqual(video.ai_title, AI_COMM_ERROR)

\* Where a keyword occurs inside one of the strings of the model.
Occurrences ==
    {<<"pork 200g", "pork">>, <<"jeyuk-bokkeum", "jeyuk">>, <<"soy sauce 1T", "soy">>}
InString(s, keyword) == s = keyword \/ <<s, keyword>> \in Occurrences

\* column.contains(keyword) on ai_title: LIKE '%keyword%', not true of NULL.
TitleContains(col, keyword) == col.tag = "str" /\ InString(col.v[1], keyword)

\* column.contains(keyword) on ai_ingredients, the JSON text of a dict: the keyword
\* is in a key or in a string of a value.
TextContains(col, keyword) ==
    /\ ~col.isnull
    /\ \E i \in 1..Len(col.text) :
          \/ InString(col.text[i].k, keyword)
          \/ \E k \in 1..Len(col.text[i].x.v) : InString(col.text[i].x.v[k], keyword)

\* The select list of lines 101-106 and 157-162 over the join of lines 106 and
\* 162: one row per video and channel with the video's channel_id.
JoinedRows(chs, table) ==
    { [video_id |-> table[v].video_id, title |-> table[v].ai_title,
       ai_ingredients |-> table[v].ai_ingredients,
       channel_name |-> chs[i].channel_name] :
        <<v, i>> \in { p \in (DOMAIN table) \X (1..Len(chs)) :
                          /\ table[p[1]].channel_id = chs[p[2]].channel_id
                          /\ RecipeFilter(table[p[1]]) } }

\* The subsets of k elements.
RECURSIVE KSubsets(_, _)
KSubsets(S, k) ==
    IF k = 0 THEN {{}}
    ELSE IF Cardinality(S) < k THEN {}
    ELSE LET x == CHOOSE y \in S : TRUE
         IN  KSubsets(S \ {x}, k) \cup {T \cup {x} : T \in KSubsets(S \ {x}, k - 1)}

\* The mutant of the limit: every row is returned.
LimitNone(rows, n) == {rows}

\* .order_by(...).limit(n).all(): at most n rows.  func.random() (line 111) and
\* published_at of rows with the same timestamp (line 182) leave the choice of
\* the rows to the database.
Limit(rows, n) == IF Cardinality(rows) <= n THEN {rows} ELSE KSubsets(rows, n)

\* The query parameters the requests of the model carry (keyword, channel_id):
\* both absent, or both given.
SearchInputs == {<<PyNone, PyNone>>, <<PyStr("pork"), PyStr("c1")>>}

ServerUnchanged ==
    UNCHANGED <<channels, videos, op, step, active_channels, ch_i, playlist_response,
                item_i, next_page_token, new_videos_batch, videos_to_process, proc_i,
                analysis, run_start, last_item, script, provider, backfill_runs,
                resolver_call, registration, calls, compared, startup, runs>>

\* GET /api/recommendations: three recipes at random, or HTTP 500 when the query
\* raises (lines 122-124).
get_recommendations ==
    /\ served = NoRequest
    /\ \/ \E random_videos \in Limit(JoinedRows(channels, videos), RecommendLimit) :
             served' = [endpoint |-> "recommendations", keyword |-> PyNone,
                        channel_id |-> PyNone, status_code |-> 200,
                        recipe_list |-> random_videos]
       \/ served' = [endpoint |-> "recommendations", keyword |-> PyNone,
                     channel_id |-> PyNone, status_code |-> 500, recipe_list |-> {}]
    /\ ServerUnchanged

\* GET /api/search with its two optional parameters: the filters of lines 170-179,
\* the latest 50 (line 182), or HTTP 500 when the query raises (lines 206-208).
search_recipes(keyword, channel_id) ==
    /\ served = NoRequest
    /\ LET base == JoinedRows(channels, videos)
           of_channel == IF Truthy(channel_id)
                         THEN {r \in base : videos[r.video_id].channel_id = channel_id.v[1]}
                         ELSE base
           matching == IF Truthy(keyword)
                       THEN {r \in of_channel :
                               \/ TitleContains(r.title, keyword.v[1])
                               \/ TextContains(r.ai_ingredients, keyword.v[1])}
                       ELSE of_channel
       IN  \/ \E results \in Limit(matching, SearchLimit) :
                 served' = [endpoint |-> "search", keyword |-> keyword,
                            channel_id |-> channel_id, status_code |-> 200,
                            recipe_list |-> results]
           \/ served' = [endpoint |-> "search", keyword |-> keyword,
                         channel_id |-> channel_id, status_code |-> 500,
                         recipe_list |-> {}]
    /\ ServerUnchanged

SearchRequest ==
    \E params \in SearchInputs : search_recipes(params[1], params[2])

\* The answer has been sent: the handler has returned.
Respond ==
    /\ served # NoRequest
    /\ served' = NoRequest
    /\ ServerUnchanged

\* A step of the pipeline between two requests.
PipelineStep == served = NoRequest /\ Next

\* A store after a long time of operation: channel c9, deactivated since, with 51
\* recipes, and one more video in which the analysis found no ingredients.
ArchiveSize == 51
ArchiveChannels ==
    <<[channel_id |-> "c9", channel_name |-> "nine", uploads_playlist_id |-> "p9",
       is_active |-> FALSE, recipe_source |-> "description"]>>
ArchiveVideo(i) ==
    NewVideo("a" \o ToString(i), "c9", "t", PyStr("text"), "2024-01-01T00:00:00Z")
ArchiveStore ==
    [v \in {"a" \o ToString(i) : i \in 0..ArchiveSize} |->
        LET i == CHOOSE k \in 0..ArchiveSize : v = "a" \o ToString(k)
        IN  IF i = 0
            THEN WriteCompleted(ArchiveVideo(i), DefaultResult.members)
            ELSE WriteCompleted(ArchiveVideo(i), Good.members)]

InitServer ==
    /\ \/ channels = ChannelRows /\ videos = EmptyTable
       \/ channels = ArchiveChannels /\ videos = ArchiveStore
    /\ op = "idle"
    /\ step = "none"
    /\ active_channels = <<>>
    /\ ch_i = 0
    /\ playlist_response = NoResponse
    /\ item_i = 0
    /\ next_page_token = 0
    /\ new_videos_batch = <<>>
    /\ videos_to_process = <<>>
    /\ proc_i = 0
    /\ analysis = NoAnalysis
    /\ run_start = EmptyTable
    /\ last_item = NoItem
    /\ script = <<>>
    /\ provider = NoProvider
    /\ backfill_runs = 0
    /\ resolver_call = NoResolverCall
    /\ registration = NoRegistration
    /\ calls = <<>>
    /\ compared = NoCompared
    /\ startup = NoStartup
    /\ runs = NoRuns
    /\ served = NoRequest

NextServer ==
    \/ PipelineStep
    \/ get_recommendations
    \/ SearchRequest
    \/ Respond

SpecServer == InitServer /\ [][NextServer]_vars


(***************************************************************************)
(* Properties.                                                             *)
(***************************************************************************)
StatusOf(table, v) == table[v].analysis_status
AllowedTransitions ==
    {<<"pending", "completed">>, <<"pending", "failed">>,
     <<"failed", "completed">>, <<"failed", "failed">>}

\* C1: in every step of every run of Discover-recent, Backfill-all and
\* Process-pending, no video is removed; a video's analysis_status either stays or
\* moves along pending->completed, pending->failed, failed->completed
\* (failed->failed keeps it); a completed video stays completed, no existing video
\* becomes pending again, and a new video starts as pending.
C1_StatusTransitions ==
    [][ /\ \A v \in DOMAIN videos :
              /\ v \in DOMAIN videos'
              /\ \/ StatusOf(videos', v) = StatusOf(videos, v)
                 \/ <<StatusOf(videos, v), StatusOf(videos', v)>> \in AllowedTransitions
              /\ StatusOf(videos, v) = "completed" => StatusOf(videos', v) = "completed"
              /\ StatusOf(videos', v) = "pending" => StatusOf(videos, v) = "pending"
        /\ \A v \in DOMAIN videos' \ DOMAIN videos : StatusOf(videos', v) = "pending"
      ]_vars

\* C1's case: a Process-pending run has moved a video that was failed when the run
\* started to completed, and another one from pending to failed.
C1_Witness ==
    /\ op = "process"
    /\ \E v \in DOMAIN run_start :
          StatusOf(run_start, v) = "failed" /\ StatusOf(videos, v) = "completed"
    /\ \E v \in DOMAIN run_start :
          StatusOf(run_start, v) = "pending" /\ StatusOf(videos, v) = "failed"

\* The ids the wrapper has been invoked for so far in the running Process-pending.
Invoked ==
    LET n == IF step = "done" THEN proc_i
             ELSE IF proc_i = 0 THEN 0 ELSE proc_i - 1
    IN  {videos_to_process[i] : i \in 1..Min(n, Len(videos_to_process))}

\* C2: during and at the end of a Process-pending run, every video that was completed
\* when the run started is not among the videos the run selected, the wrapper has
\* not been invoked for it, and its row (status, ai_title, ai_ingredients and every
\* other column) is as it was at the start.
C2_CompletedUntouched ==
    op = "process" =>
        \A v \in DOMAIN run_start :
            StatusOf(run_start, v) = "completed" =>
                /\ v \notin {videos_to_process[i] : i \in 1..Len(videos_to_process)}
                /\ v \notin Invoked
                /\ analysis.video_id # v
                /\ videos[v] = run_start[v]

\* C2's case: a Process-pending run that started with a completed video has ended
\* after working on another video.
C2_Witness ==
    /\ op = "process"
    /\ step = "done"
    /\ \E v \in DOMAIN run_start : StatusOf(run_start, v) = "completed"
    /\ Invoked # {}

\* An answer the wrapper can turn into a value: no exception, and apart from white
\* space and code-fence markers the text is exactly one JSON value.
Meaningful(t) == t.tok \notin {"ws", "FENCE_JSON", "FENCE"}
Parseable(answer) ==
    /\ ~answer.exc
    /\ Len(SelectSeq(answer.text, Meaningful)) = 1
    /\ SelectSeq(answer.text, Meaningful)[1].tok = "json"
ValueOf(answer) == SelectSeq(answer.text, Meaningful)[1].value

\* C3: one invocation of the wrapper calls the capability at most 3 times; when none
\* of the three answers is parseable it has called 3 times and raises; when answer k
\* is the first parseable one it has called exactly k times and returns the value of
\* answer k.
C3_RetryBound ==
    analysis.video_id # "" =>
        /\ analysis.calls \in 1..3
        /\ (\A n \in 1..3 : ~Parseable(script[n])) =>
               analysis.calls = 3 /\ analysis.raised
        /\ \A k \in 1..3 :
               (Parseable(script[k]) /\ \A j \in 1..(k - 1) : ~Parseable(script[j])) =>
                   /\ analysis.calls = k
                   /\ ~analysis.raised
                   /\ analysis.result = ValueOf(script[k])

\* C3's case: the wrapper has been invoked with three answers that all fail.
C3_Witness ==
    /\ analysis.video_id # ""
    /\ \A n \in 1..3 : ~Parseable(script[n])
    /\ analysis.calls = 3
    /\ analysis.raised

\* The position of a video id in videos_to_process.
PositionOf(v) == CHOOSE i \in 1..Len(videos_to_process) : videos_to_process[i] = v

CommErrorJson ==
    [key \in {"title", "main", "sauce"} |->
        IF key = "title" THEN PyStr(AI_COMM_ERROR) ELSE PyList(<<>>)]

\* C4: whenever the wrapper has raised for a video in Process-pending, that video is
\* committed as failed with ai_title AI_COMM_ERROR and ai_ingredients the JSON of
\* {title: AI_COMM_ERROR, main: [], sauce: []}, and the run goes on: with videos left
\* it stands at the next video, otherwise it has returned normally.
C4_FailureSentinel ==
    (op = "process" /\ analysis.video_id # "" /\ analysis.raised) =>
        /\ StatusOf(videos, analysis.video_id) = "failed"
        /\ videos[analysis.video_id].ai_title = PyStr(AI_COMM_ERROR)
        /\ ~videos[analysis.video_id].ai_ingredients.isnull
        /\ JsonLoads(videos[analysis.video_id].ai_ingredients) = CommErrorJson
        /\ IF PositionOf(analysis.video_id) < Len(videos_to_process)
           THEN step = "video" /\ proc_i = PositionOf(analysis.video_id) + 1
           ELSE step = "done"

\* C4's case: the wrapper has raised after three calls for a video that is not the
\* last of the run.
C4_Witness ==
    /\ op = "process"
    /\ analysis.raised
    /\ analysis.calls = 3
    /\ step = "video"


\* A StructuredResult: a JSON object with exactly the keys title, main and sauce,
\* title a string, main and sauce lists of strings.
IsStructured(j) ==
    /\ j.kind = "obj"
    /\ Len(j.members) = 3
    /\ Keys(j.members) = {"title", "main", "sauce"}
    /\ DictGet(j.members, "title").tag = "str"
    /\ DictGet(j.members, "main").tag = "list"
    /\ DictGet(j.members, "sauce").tag = "list"

AsMap(ms) == [key \in Keys(ms) |-> DictGet(ms, key)]

\* C5: for every StructuredResult the wrapper returns, Process-pending does not fail
\* (the video is completed) and what it persists is a function of that result: with
\* main and sauce both empty the persisted title (in ai_title and in ai_ingredients)
\* is ANALYSIS_FAILED and main and sauce are as returned; with main or sauce
\* non-empty the persisted object equals the returned one, title included.
C5_Reconciliation ==
    (analysis.video_id # "" /\ ~analysis.raised /\ IsStructured(analysis.result)) =>
        LET given == AsMap(analysis.result.members)
            row == videos[analysis.video_id]
            kept == JsonLoads(row.ai_ingredients)
        IN  /\ row.analysis_status = "completed"
            /\ ~row.ai_ingredients.isnull
            /\ DOMAIN kept = {"title", "main", "sauce"}
            /\ row.ai_title = kept["title"]
            /\ IF given["main"].v = <<>> /\ given["sauce"].v = <<>>
               THEN /\ kept["title"] = PyStr(ANALYSIS_FAILED)
                    /\ kept["main"] = given["main"]
                    /\ kept["sauce"] = given["sauce"]
               ELSE kept = given

\* C5's case: the wrapper has returned a titled result with both lists empty, and
\* the video has been written.
C5_Witness ==
    /\ analysis.video_id # ""
    /\ ~analysis.raised
    /\ analysis.result = TitledEmpty
    /\ videos[analysis.video_id].ai_title = PyStr(ANALYSIS_FAILED)

\* C6: every completed video has a non-null ai_title and a non-null ai_ingredients.
C6_CompletedNonNull ==
    \A v \in DOMAIN videos :
        StatusOf(videos, v) = "completed" =>
            /\ videos[v].ai_title # PyNone
            /\ ~videos[v].ai_ingredients.isnull

\* C7: every non-null ai_ingredients is a JSON object with exactly the keys title,
\* main and sauce, title a string, main and sauce lists of strings.
C7_IngredientsShape ==
    \A v \in DOMAIN videos :
        ~videos[v].ai_ingredients.isnull =>
            LET kept == JsonLoads(videos[v].ai_ingredients)
            IN  /\ DOMAIN kept = {"title", "main", "sauce"}
                /\ Len(videos[v].ai_ingredients.text) = 3
                /\ kept["title"].tag = "str"
                /\ kept["main"].tag = "list"
                /\ kept["sauce"].tag = "list"

\* C8: a video worked on in a Process-pending run is written completed exactly when
\* the wrapper returned a value for it without raising.
C8_CompletedIffReturned ==
    (op = "process" /\ analysis.video_id # "") =>
        (analysis.outcome = "completed" <=> ~analysis.raised)

\* C9: every video row, committed or waiting in the page's batch, belongs to a
\* source video of at most 180 seconds.
C9_ShortFormOnly ==
    /\ \A v \in DOMAIN videos : TotalSeconds(Details(v).duration) <= 180
    /\ \A i \in 1..Len(new_videos_batch) :
           TotalSeconds(Details(new_videos_batch[i].video_id).duration) <= 180

\* C9's case: the video of exactly 180 seconds is in the store, and a run has just
\* examined the video of 181 seconds, fetched its details and dropped it.
C9_Witness ==
    /\ "v3" \in DOMAIN videos
    /\ TotalSeconds(Details("v3").duration) = 180
    /\ last_item.video_id = "v2"
    /\ last_item.detail = "ok"
    /\ last_item.duration_sec = 181
    /\ last_item.outcome = "too long"

\* The channel that owns a listed video id in the running ingestion.
CurrentChannel == active_channels[ch_i]

\* C10: when Discover-recent has examined a video id that was not in the store,
\* whose detail fetch succeeded and whose duration is at most 180 seconds, the video
\* is in the store as pending, with the resolver's text for the channel's source
\* preference.
C10_DiscoverInsertsEligible ==
    (op = "discover" /\ last_item.eligible) =>
        /\ last_item.video_id \in DOMAIN videos
        /\ StatusOf(videos, last_item.video_id) = "pending"
        /\ \E thread \in ThreadAnswers(last_item.video_id) :
               videos[last_item.video_id].description =
                   get_text_to_analyze(last_item.video_id,
                                       Details(last_item.video_id).snippet,
                                       CurrentChannel.recipe_source,
                                       thread).text

\* C11: when a Backfill-all run has returned and Backfill-all runs again with the
\* provider giving the same listings, details and comment threads, the later run
\* puts no row in its batch, inserts no record and changes no existing record: the
\* store stays as it was when the run started.
C11_BackfillIdempotent ==
    (op = "backfill" /\ backfill_runs >= 1) =>
        /\ videos = run_start
        /\ new_videos_batch = <<>>

\* C11's case: a second run has gone through every channel of a store the first run
\* filled, and has just found a video the first run inserted.
C11_Witness ==
    /\ op = "backfill"
    /\ backfill_runs >= 1
    /\ step = "done"
    /\ last_item.outcome = "exists"
    /\ ch_i = Len(active_channels)
    /\ DOMAIN videos = {"v1", "v3", "v4"}

\* The description of the snippet a resolver call was given, as a string: the empty
\* string when the key is absent or its value is null.
DescriptionGiven ==
    LET snippet == resolver_call.video_snippet
    IN  IF snippet.has_description /\ snippet.description.tag = "str"
        THEN snippet.description
        ELSE PyStr("")

\* The snippet of a resolver call embeds a top comment with a non-empty text.
EmbedsTopText ==
    LET top == resolver_call.video_snippet.topLevelComment
    IN  /\ top.present
        /\ top.has_snippet
        /\ top.textDisplay.tag = "str"
        /\ top.textDisplay # PyStr("")

\* The comment-thread call of a resolver call yields no text: it raises, returns no
\* thread, or a thread whose text is absent or empty.
ThreadYieldsNone ==
    \/ resolver_call.thread.exc
    \/ ~resolver_call.thread.has_items
    \/ resolver_call.thread.textDisplay \in {PyNone, PyStr("")}

\* C12: with source preference description the resolver does not raise, returns the
\* snippet's description (the empty string when it is absent or null) as a string,
\* whatever top comment the snippet embeds, and does not issue the comment-thread call.
C12_DescriptionSource ==
    resolver_call.recipe_source = "description" =>
        /\ ~resolver_call.raised
        /\ resolver_call.returned =>
               /\ resolver_call.text = DescriptionGiven
               /\ resolver_call.text.tag = "str"
               /\ ~resolver_call.threads_called

\* C12's case: the resolver has returned the empty description of a snippet that
\* embeds a top comment with a text, for a channel that prefers the description.
C12_Witness ==
    /\ resolver_call.returned
    /\ resolver_call.recipe_source = "description"
    /\ EmbedsTopText
    /\ resolver_call.video_snippet.has_description
    /\ resolver_call.video_snippet.description = PyStr("")
    /\ resolver_call.text = PyStr("")

\* C13: with source preference pinned_comment, when the snippet embeds a top comment
\* with a non-empty text the resolver returns exactly that text and does not issue
\* the comment-thread call; in every other case (top comment absent, without inner
\* snippet, with a null or empty text) it issues the call.
C13_PinnedCommentSource ==
    (resolver_call.returned /\ resolver_call.recipe_source = "pinned_comment") =>
        IF EmbedsTopText
        THEN /\ resolver_call.text = resolver_call.video_snippet.topLevelComment.textDisplay
             /\ ~resolver_call.threads_called
        ELSE resolver_call.threads_called

\* C13's case: the resolver has returned the embedded text although the comment
\* threads hold another text.
C13_Witness ==
    /\ resolver_call.returned
    /\ resolver_call.recipe_source = "pinned_comment"
    /\ EmbedsTopText
    /\ Truthy(resolver_call.thread.textDisplay)
    /\ resolver_call.thread.textDisplay # resolver_call.video_snippet.topLevelComment.textDisplay
    /\ ~resolver_call.threads_called

\* C14: with source preference pinned_comment, when the snippet embeds no top-comment
\* text and the comment-thread call yields none, the resolver does not raise and
\* returns the snippet's description, the empty string when it is absent or null;
\* what it returns is a string, never null.
C14_FallbackToDescription ==
    (resolver_call.recipe_source = "pinned_comment" /\ ~EmbedsTopText /\ ThreadYieldsNone) =>
        /\ ~resolver_call.raised
        /\ resolver_call.returned =>
               /\ resolver_call.text = DescriptionGiven
               /\ resolver_call.text.tag = "str"

\* C14's case: the comment-thread call has raised for a snippet without top comment
\* and the resolver has returned the description.
C14_Witness ==
    /\ resolver_call.returned
    /\ resolver_call.recipe_source = "pinned_comment"
    /\ ~EmbedsTopText
    /\ resolver_call.thread.exc
    /\ resolver_call.threads_called
    /\ resolver_call.text = PyStr("desc")

\* The index in active_channels of the channel whose uploads collection lists v, and
\* the place of v in the last listing answer.
OwnerIndex(v) ==
    CHOOSE i \in 1..Len(active_channels) :
        \E k \in 1..Len(Uploads(active_channels[i].uploads_playlist_id)) :
            Uploads(active_channels[i].uploads_playlist_id)[k] = v
ItemPosition(v) ==
    CHOOSE k \in 1..Len(playlist_response.items) : playlist_response.items[k] = v

\* A first comment thread with a non-empty text.
HasThreadText(thread) ==
    ~thread.exc /\ thread.has_items /\ thread.textDisplay.tag = "str"
    /\ thread.textDisplay # PyStr("")

\* C15: for an active channel with source preference pinned_comment, when an
\* ingestion run (Discover-recent or Backfill-all) has examined a new video of at
\* most 180 seconds whose snippet has no topLevelComment and whose comment threads
\* hold a text T, the video is a pending record with description T (in Backfill-all
\* possibly still in the page's batch); and when Process-pending got
\* {title: t, main: non-empty, sauce: []} for a video, that video is completed with
\* ai_title t.
C15_EndToEnd ==
    /\ (/\ op \in {"discover", "backfill"}
        /\ last_item.eligible
        /\ active_channels[OwnerIndex(last_item.video_id)].recipe_source = "pinned_comment"
        /\ ~Details(last_item.video_id).snippet.topLevelComment.present
        /\ HasThreadText(last_item.thread))
       => LET v == last_item.video_id
              Wanted(row) ==
                  /\ row.video_id = v
                  /\ row.analysis_status = "pending"
                  /\ row.description = last_item.thread.textDisplay
          IN  \/ v \in DOMAIN videos /\ Wanted(videos[v])
              \/ /\ op = "backfill"
                 /\ \E i \in 1..Len(new_videos_batch) : Wanted(new_videos_batch[i])
    /\ (/\ op = "process"
        /\ analysis.video_id # ""
        /\ ~analysis.raised
        /\ IsStructured(analysis.result)
        /\ DictGet(analysis.result.members, "main").v # <<>>
        /\ DictGet(analysis.result.members, "sauce").v = <<>>)
       => /\ StatusOf(videos, analysis.video_id) = "completed"
          /\ videos[analysis.video_id].ai_title = DictGet(analysis.result.members, "title")

\* C16: when the detail fetch of a video has raised or returned no items in
\* Discover-recent or Backfill-all, no record of that video is in the store or in
\* the page's batch, and the run goes on as after any other video: it stands at the
\* next video of the listing or, after the last one, at the end of the page, at the
\* next page, at the next active channel, or - with no channel left - at its end.
C16_DetailFailureSkipsOneVideo ==
    (op \in {"discover", "backfill"} /\ last_item.outcome = "skipped") =>
        LET v == last_item.video_id
            owner == OwnerIndex(v)
            NextChannelOrEnd ==
                IF owner < Len(active_channels)
                THEN step = "list" /\ ch_i = owner + 1
                ELSE step = "done" /\ ch_i = owner
        IN  /\ last_item.detail \in {"empty", "raises"}
            /\ v \notin DOMAIN videos
            /\ \A i \in 1..Len(new_videos_batch) : new_videos_batch[i].video_id # v
            /\ IF ItemPosition(v) < Len(playlist_response.items)
               THEN step = "item" /\ item_i = ItemPosition(v) + 1 /\ ch_i = owner
               ELSE IF op = "discover"
               THEN NextChannelOrEnd
               ELSE \/ step = "page_end" /\ ch_i = owner
                    \/ /\ playlist_response.nextPageToken # 0
                       /\ step = "list"
                       /\ ch_i = owner
                       /\ next_page_token = playlist_response.nextPageToken
                    \/ /\ playlist_response.nextPageToken = 0
                       /\ NextChannelOrEnd

\* C16's case: a Backfill-all run that started on an empty store has ended after it
\* left out v1, and it has inserted the next video of the same channel and the video
\* of the next channel.
C16_Witness ==
    /\ op = "backfill"
    /\ step = "done"
    /\ run_start = EmptyTable
    /\ DOMAIN videos = {"v3", "v4"}

\* C17: when a listing call has failed in Discover-recent or Backfill-all, the run
\* goes on with the remaining active channels: it has ended only if the channel
\* whose listing failed was the last one.
C17_ListingFailureNotFatal ==
    (op \in {"discover", "backfill"} /\ last_item.outcome = "listing failed"
     /\ step = "done") =>
        ch_i = Len(active_channels)

\* The set of the ids in a sequence of ids.
IdsOf(ids) == {ids[i] : i \in 1..Len(ids)}

\* C18: in a Process-pending run, each pass of the loop commits the outcome of its
\* video (completed or failed, with its ai_ingredients) and leaves every other row
\* as it was, so the outcome of every video worked on is in the store before the
\* next one is started; a run that dies and the exit that follows leave the store as
\* committed; and a run that starts selects exactly the videos that are pending or
\* failed in the store.
C18_PerVideoCommit ==
    [][ /\ (op = "process" /\ step = "video" /\ step' \in {"video", "done"}) =>
              LET v == videos_to_process[proc_i]
              IN  /\ analysis'.video_id = v
                  /\ StatusOf(videos', v) \in {"completed", "failed"}
                  /\ StatusOf(videos', v) = analysis'.outcome
                  /\ ~videos'[v].ai_ingredients.isnull
                  /\ \A w \in DOMAIN videos \ {v} : videos'[w] = videos[w]
        /\ (op = "process" /\ (step' = "crashed" \/ op' = "idle")) => videos' = videos
        /\ op' = "process" =>
              \A v \in Invoked' :
                  /\ StatusOf(videos', v) \in {"completed", "failed"}
                  /\ ~videos'[v].ai_ingredients.isnull
        /\ (op = "idle" /\ op' = "process") =>
              IdsOf(videos_to_process') =
                  {v \in DOMAIN videos : StatusOf(videos, v) \in {"pending", "failed"}}
      ]_vars

\* C18's case: a Process-pending run has died after it completed one video that was
\* pending at its start and wrote another one failed, with a selected video still
\* pending in the store.
C18_Witness ==
    /\ op = "process"
    /\ step = "crashed"
    /\ \E v \in Invoked : StatusOf(run_start, v) = "pending" /\ StatusOf(videos, v) = "completed"
    /\ \E v \in Invoked : StatusOf(videos, v) = "failed"
    /\ \E v \in IdsOf(videos_to_process) \ Invoked : StatusOf(videos, v) = "pending"

\* No two rows of a channels table share a channel_id or an uploads_playlist_id, and
\* every recipe_source is description or pinned_comment.
ChannelsWellFormed(table) ==
    /\ \A i, j \in 1..Len(table) :
           i # j => /\ table[i].channel_id # table[j].channel_id
                    /\ table[i].uploads_playlist_id # table[j].uploads_playlist_id
    /\ \A i \in 1..Len(table) : table[i].recipe_source \in {"description", "pinned_comment"}

\* C19: after every registration no two Channel records share a channel identifier
\* or an uploads-collection identifier and every recipe_source is description or
\* pinned_comment; a registration whose channel identifier or uploads-collection
\* identifier is already stored is rejected and leaves the Channel records as they
\* were; any other registration appends one record and keeps the others.
C19_ChannelUniqueness ==
    [][ /\ ChannelsWellFormed(channels')
        /\ IF \E i \in 1..Len(channels) :
                 \/ channels[i].channel_id = registration'.channel_id
                 \/ channels[i].uploads_playlist_id = registration'.uploads_playlist_id
           THEN /\ registration'.outcome = "rejected"
                /\ channels' = channels
           ELSE /\ registration'.outcome = "registered"
                /\ Len(channels') = Len(channels) + 1
                /\ SubSeq(channels', 1, Len(channels)) = channels
                /\ channels'[Len(channels')].channel_id = registration'.channel_id
                /\ channels'[Len(channels')].uploads_playlist_id
                       = registration'.uploads_playlist_id
      ]_vars

\* C19's case: with two channels registered, a registration with a new channel
\* identifier has been rejected because its uploads-collection identifier (the one
\* derived from the channel identifier) is already stored.
C19_Witness ==
    /\ Len(channels) >= 2
    /\ registration.outcome = "rejected"
    /\ \A i \in 1..Len(channels) : channels[i].channel_id # registration.channel_id
    /\ registration.uploads_playlist_id = DefaultUploadsId(registration.channel_id)

\* C20: in every ingestion operation, at any moment at most one item's change is
\* not yet committed, so a run that dies loses at most the item in progress.
\* (Discover-recent and Process-pending commit inside the pass that wrote the item;
\* the rows Backfill-all has built and not yet committed are its page's batch.)
C20_OneItemUncommitted ==
    Len(new_videos_batch) <= 1

\* C21: when the commit for one item fails (the insert of a page in Backfill-all,
\* the outcome of a video in Process-pending), the failed unit is rolled back and
\* the run continues with the next item: with items left after it, the run stands
\* at the next one.
C21_CommitFailureContinues ==
    /\ ( /\ op = "process"
         /\ analysis.outcome = "commit failed"
         /\ PositionOf(analysis.video_id) < Len(videos_to_process)
         => step = "video" /\ proc_i = PositionOf(analysis.video_id) + 1 )
    /\ ( /\ op = "backfill"
         /\ last_item.outcome = "commit failed"
         /\ (playlist_response.nextPageToken # 0 \/ ch_i < Len(active_channels))
         => step = "list" )

\* The page tokens of an uploads collection: the offsets at which a listing page of
\* Backfill-all starts.
PageTokens(playlist) ==
    {0} \cup {t \in 1..Len(Uploads(playlist)) :
                 /\ t % Min(BackfillMaxResults, PageSize) = 0
                 /\ t < Len(Uploads(playlist))}

\* The provider of the replay fails no call: no listing raises, every detail fetch
\* returns the video, the comment-thread call does not raise.
NoCallFails ==
    /\ provider.listing_fails = {}
    /\ \A v \in DOMAIN provider.detail : provider.detail[v] = "ok"
    /\ ~provider.thread.exc

Listed(playlist, token) ==
    \E k \in 1..Len(calls) : calls[k] = Call("list", playlist, token)

\* C22: when a Backfill-all run has come to its end and no provider call of the run
\* has failed, the run has listed every page of the uploads collection of every
\* active channel, and every listed video of at most 180 seconds has a record in
\* the store.
C22_BackfillComplete ==
    (op = "backfill" /\ step = "done" /\ NoCallFails) =>
        \A i \in 1..Len(channels) :
            IsActive(channels[i]) =>
                /\ \A t \in PageTokens(channels[i].uploads_playlist_id) :
                      Listed(channels[i].uploads_playlist_id, t)
                /\ \A k \in 1..Len(Uploads(channels[i].uploads_playlist_id)) :
                      LET v == Uploads(channels[i].uploads_playlist_id)[k]
                      IN  TotalSeconds(Details(v).duration) <= ShortFormSeconds
                             => /\ v \in DOMAIN videos
                                /\ videos[v].channel_id = channels[i].channel_id

\* C22's case: a first run over a collection of more than one page has ended with no
\* failed call; the short of its last page has a record, the long video of its
\* first page has none.
C22_Witness ==
    /\ op = "backfill"
    /\ step = "done"
    /\ backfill_runs = 0
    /\ NoCallFails
    /\ channels = BacklogRows
    /\ Len(Uploads("p4")) > Min(BackfillMaxResults, PageSize)
    /\ "v8" \in DOMAIN videos
    /\ "v6" \notin DOMAIN videos

\* The positions of calls that hold a listing call.
ListingCalls == {k \in 1..Len(calls) : calls[k].kind = "list"}

\* No page is listed twice in a run.
NoPageListedTwice ==
    \A j, k \in ListingCalls : j # k => calls[j] # calls[k]

\* A run about to list a further page of the collection it listed last has got
\* items and a nextPageToken from that listing, and lists with that token.
PageLoopGoesOn ==
    ( /\ op = "backfill"
      /\ step = "list"
      /\ ListingCalls # {}
      /\ LET last == CHOOSE k \in ListingCalls : \A j \in ListingCalls : j <= k
         IN  calls[last].id = active_channels[ch_i].uploads_playlist_id )
    => /\ playlist_response.items # <<>>
       /\ playlist_response.nextPageToken # 0
       /\ next_page_token = playlist_response.nextPageToken

\* C23: the page loop of Backfill-all lists no page twice in a run and goes on only
\* after an answer with items and a nextPageToken, and every run that has started
\* reaches its end.
C23_BackfillTerminates ==
    /\ []NoPageListedTwice
    /\ []PageLoopGoesOn
    /\ (op = "backfill") ~> (op = "backfill" /\ step = "done")

\* C23's case: a run has ended after it left the page loop once on an answer without
\* items and once on an answer without nextPageToken, three listing calls in all.
C23_Witness ==
    /\ op = "backfill"
    /\ step = "done"
    /\ channels = BacklogRows
    /\ Listed("p5", 0)
    /\ Listed("p4", 0)
    /\ Listed("p4", Min(BackfillMaxResults, PageSize))
    /\ playlist_response.nextPageToken = 0

\* The video id of calls[k] was in the store when the call was issued: the run found
\* it there at its start, or has made its row visible before.
InStoreAt(k) ==
    \/ calls[k].id \in DOMAIN run_start
    \/ \E j \in 1..(k - 1) : calls[j] = Call("insert", calls[k].id, 0)

\* C24: in Discover-recent and in Backfill-all every detail fetch comes right after
\* the duplicate check of the same video id, every comment-thread fetch right after
\* that detail fetch, and neither is ever issued for a video id that is in the store.
C24_ExistenceCheckFirst ==
    \A k \in 1..Len(calls) :
        /\ calls[k].kind \in {"detail", "threads"} => ~InStoreAt(k)
        /\ calls[k].kind = "detail" =>
              k > 1 /\ calls[k - 1] = Call("exists", calls[k].id, 0)
        /\ calls[k].kind = "threads" =>
              k > 2 /\ calls[k - 1] = Call("detail", calls[k].id, 0)

\* C24's case: a run has checked a video id that is in the store and has gone on to
\* the next id without a fetch, and has fetched the details and the comment threads
\* of an id that is not in the store.
C24_Witness ==
    /\ op \in {"discover", "backfill"}
    /\ \E k \in 1..Len(calls) :
          /\ calls[k].kind = "exists"
          /\ InStoreAt(k)
          /\ k < Len(calls)
          /\ calls[k + 1].kind # "detail"
    /\ \E k \in 1..Len(calls) : calls[k].kind = "threads"

\* The ids a run examines when nothing ends it early: for each active channel in
\* query order, the first listing page (Discover-recent) or the whole uploads
\* collection (Backfill-all), in the order the provider delivers it.
RECURSIVE CatalogOrder(_)
CatalogOrder(chs) ==
    IF chs = <<>> THEN <<>>
    ELSE (IF op = "discover"
          THEN ListUploads(Head(chs).uploads_playlist_id, 0, DiscoverMaxResults).items
          ELSE Uploads(Head(chs).uploads_playlist_id))
         \o CatalogOrder(Tail(chs))

\* The ids of the calls of one kind, in the order of calls.
IdsOfKind(kind) ==
    LET OfKind(c) == c.kind = kind
        sel == SelectSeq(calls, OfKind)
    IN  [i \in 1..Len(sel) |-> sel[i].id]

IsPrefix(a, b) == Len(a) <= Len(b) /\ SubSeq(b, 1, Len(a)) = a

\* C25: in a run of Discover-recent or Backfill-all the video ids are examined in
\* catalog order, channel after channel in query order and page after page; the
\* rows that become visible do so in that same order, each after its id was
\* examined and before the run lists anything further.
C25_CatalogOrder ==
    op \in {"discover", "backfill"} =>
        /\ IsPrefix(IdsOfKind("exists"), CatalogOrder(active_channels))
        /\ \A k \in 1..Len(calls) :
              calls[k].kind = "insert" =>
                  \E j \in 1..(k - 1) :
                      /\ calls[j] = Call("exists", calls[k].id, 0)
                      /\ \A m \in (j + 1)..(k - 1) : calls[m].kind # "list"
        /\ \A j, k \in 1..Len(IdsOfKind("insert")) :
              j < k =>
                  \E a, b \in 1..Len(IdsOfKind("exists")) :
                      /\ a < b
                      /\ IdsOfKind("exists")[a] = IdsOfKind("insert")[j]
                      /\ IdsOfKind("exists")[b] = IdsOfKind("insert")[k]

\* C25's case: a Backfill-all run has gone through every page of both active
\* channels and has made rows of the first and of the second channel visible.
C25_Witness ==
    /\ op = "backfill"
    /\ step = "done"
    /\ Len(active_channels) = 2
    /\ IdsOfKind("exists") = CatalogOrder(active_channels)
    /\ Len(IdsOfKind("list")) > Len(active_channels)
    /\ \E j, k \in 1..Len(IdsOfKind("insert")) :
          /\ j < k
          /\ IdsOfKind("insert")[j] \in {Uploads("p1")[i] : i \in 1..Len(Uploads("p1"))}
          /\ IdsOfKind("insert")[k] \in {Uploads("p2")[i] : i \in 1..Len(Uploads("p2"))}

\* The uploads collection fits in the one page Discover-recent lists.
OnePage(playlist) == Len(Uploads(playlist)) <= Min(DiscoverMaxResults, PageSize)

\* The Video records of a channel: their ids, stored texts and statuses.
RecordsOf(table, channel_id) ==
    { [video_id |-> v, description |-> table[v].description,
       analysis_status |-> table[v].analysis_status] :
         v \in {w \in DOMAIN table : table[w].channel_id = channel_id} }

\* C26: when a Backfill-all run has come to its end from the store a Discover-recent
\* run started from, with the provider answering both alike, then for every active
\* channel whose uploads fit in one page the two runs have left the same Video
\* records: same ids, same stored text, same status.
C26_SameRecords ==
    (op = "backfill" /\ step = "done" /\ compared.taken /\ compared.start = run_start) =>
        \A i \in 1..Len(active_channels) :
            OnePage(active_channels[i].uploads_playlist_id) =>
                RecordsOf(videos, active_channels[i].channel_id)
                    = RecordsOf(compared.left, active_channels[i].channel_id)

\* C27: one invocation of the wrapper sleeps once before each attempt after the
\* first and never after its last attempt, so when all three attempts fail exactly
\* two waits occur; each wait is at least 4 and at most 10 seconds.
C27_BackoffBounds ==
    analysis.video_id # "" =>
        /\ Len(analysis.waits) = analysis.calls - 1
        /\ (analysis.raised => Len(analysis.waits) = 2)
        /\ \A k \in 1..Len(analysis.waits) :
              analysis.waits[k] >= 4 /\ analysis.waits[k] <= 10

\* C27's case: the wrapper has been invoked with three answers that all fail, and
\* has slept twice.
C27_Witness ==
    /\ analysis.video_id # ""
    /\ \A n \in 1..3 : ~Parseable(script[n])
    /\ analysis.raised
    /\ Len(analysis.waits) = 2

\* A credential the program requires is absent: either key for collector.py, the
\* catalog key for backfill_videos.py.
CredentialAbsent ==
    \/ ~Truthy(startup.YOUTUBE_API_KEY)
    \/ startup.program = "collector" /\ ~Truthy(startup.GEMINI_API_KEY)

\* C28: a program started without a credential it requires never gets past its
\* module-level code, and a program that has not got past it has started no
\* operation: no channel listed, no video fetched or inserted, no structuring call
\* made, no Video record modified.
C28_MissingCredentialHalts ==
    /\ CredentialAbsent => startup.state \in {"not started", "halted"}
    /\ startup.state \in {"not started", "halted"} =>
          /\ op = "idle"
          /\ calls = <<>>
          /\ analysis = NoAnalysis
          /\ \A v \in DOMAIN videos : videos[v] = UnitVideo

\* C28's case: collector.py was started with the catalog key set and the structuring
\* key absent, and has exited; a pending video is in the store.
C28_Witness ==
    /\ startup.program = "collector"
    /\ startup.state = "halted"
    /\ startup.build = "ok"
    /\ Truthy(startup.YOUTUBE_API_KEY)
    /\ startup.GEMINI_API_KEY = PyNone
    /\ "v1" \in DOMAIN videos

\* The video run r is working on.
VideoOf(r) == runs[r].videos_to_process[runs[r].proc_i]

\* C29: no run claims a video.  Whenever a pass of one of two concurrent
\* Process-pending runs commits a video that its session loaded as pending, the
\* store holds that pass's outcome afterwards, whatever the other run has committed
\* for the video in the meantime: its status, and for a failure the AI_COMM_ERROR
\* title and object, also over a row the other run committed as completed.
C29_LaterCommitOverwrites ==
    [][ \A r \in RunIds :
          ( /\ runs[r].step = "call"
            /\ runs'[r].step # "call"
            /\ runs[r].session[VideoOf(r)].analysis_status = "pending" )
          => /\ runs'[r].analysis.video_id = VideoOf(r)
             /\ runs'[r].analysis.calls >= 1
             /\ videos'[VideoOf(r)].analysis_status = runs'[r].analysis.outcome
             /\ runs'[r].analysis.outcome = "failed" =>
                   /\ videos'[VideoOf(r)].ai_title = PyStr(AI_COMM_ERROR)
                   /\ videos'[VideoOf(r)].ai_ingredients
                          = JsonDumps(CommErrorResult.members) ]_vars

\* C29's case: both runs queried before either committed and both selected v1; one
\* run committed v1 as completed, afterwards the other committed it as failed, and
\* the store holds v1 failed with the AI_COMM_ERROR title.
C29_Witness ==
    /\ \A r \in RunIds : runs[r].step # "idle" /\ runs[r].queried_at = 0
    /\ \E j, k \in 1..Len(calls) :
          /\ j < k
          /\ calls[j].kind = "completed"
          /\ calls[k].kind = "failed"
          /\ calls[j].id = "v1"
          /\ calls[k].id = "v1"
          /\ calls[j].token # calls[k].token
    /\ videos["v1"].analysis_status = "failed"
    /\ videos["v1"].ai_title = PyStr(AI_COMM_ERROR)
    /\ videos["v1"].ai_ingredients = JsonDumps(CommErrorResult.members)

\* The channels whose uploads collection is the playlist, or holds the video id.
OwnersOf(id) ==
    { i \in 1..Len(channels) :
        \/ channels[i].uploads_playlist_id = id
        \/ \E k \in 1..Len(Uploads(channels[i].uploads_playlist_id)) :
              Uploads(channels[i].uploads_playlist_id)[k] = id }

\* C30: every provider call and every insert of a Discover-recent or Backfill-all
\* run is for a playlist or a video of a channel whose active flag is true, every
\* record in the store is owned by such a channel, and with no active channel a
\* run is at its end with no provider call and the store as it found it.
C30_OnlyActiveChannels ==
    /\ \A k \in 1..Len(calls) :
          \A i \in OwnersOf(calls[k].id) : channels[i].is_active
    /\ \A v \in DOMAIN videos :
          \A i \in 1..Len(channels) :
              channels[i].channel_id = videos[v].channel_id => channels[i].is_active
    /\ ( /\ op \in {"discover", "backfill"}
         /\ \A i \in 1..Len(channels) : ~channels[i].is_active )
       => step = "done" /\ calls = <<>> /\ videos = run_start

\* C30's case: with the first channel inactive and the two others active, a
\* Backfill-all run has ended; it has listed the second and the third channel, and
\* the store holds their shorts and nothing of the first channel.
C30_Witness ==
    /\ op = "backfill"
    /\ step = "done"
    /\ ~channels[1].is_active
    /\ channels[2].is_active
    /\ channels[3].is_active
    /\ Listed("p2", 0)
    /\ Listed("p3", 0)
    /\ DOMAIN videos = {"v4", "v5"}

\* C31: a video worked on in a Process-pending pass is written failed only when the
\* capability was called 3 times for it and the wrapper raised; a pass in which the
\* wrapper returned a value never writes failed with the AI_COMM_ERROR title.
C31_FailedOnlyAfterThreeFailures ==
    (op = "process" /\ analysis.video_id # "") =>
        /\ analysis.outcome = "failed" => (analysis.calls = 3 /\ analysis.raised)
        /\ ~analysis.raised =>
              ~( /\ StatusOf(videos, analysis.video_id) = "failed"
                 /\ videos[analysis.video_id].ai_title = PyStr(AI_COMM_ERROR) )

\* C32: in every state of the store a video has ai_title AI_COMM_ERROR exactly when
\* its analysis_status is failed: no completed video carries the title of the
\* failed call, whatever title the capability returned.
C32_SentinelsDistinct ==
    \A v \in DOMAIN videos :
        (videos[v].ai_title = PyStr(AI_COMM_ERROR)) <=> (StatusOf(videos, v) = "failed")

\* The columns of a video row that Process-pending does not write.
SourceColumns(row) ==
    <<row.video_id, row.channel_id, row.title, row.description, row.published_at>>

\* C33: in every step of a Process-pending run the store keeps its set of videos
\* and every video keeps its id, owning channel, title, stored analysis text and
\* publish timestamp; in every step of a Discover-recent or Backfill-all run every
\* video of the store stays in the store with its row unchanged; no step of the
\* pipeline changes the channels table.
C33_FrameConditions ==
    [][ /\ (op = "process" \/ op' = "process") =>
              /\ DOMAIN videos' = DOMAIN videos
              /\ \A v \in DOMAIN videos : SourceColumns(videos'[v]) = SourceColumns(videos[v])
        /\ (op \in {"discover", "backfill"} \/ op' \in {"discover", "backfill"}) =>
              \A v \in DOMAIN videos : v \in DOMAIN videos' /\ videos'[v] = videos[v]
        /\ channels' = channels
      ]_vars

\* C33's case: a Backfill-all run that started from a store holding a completed and
\* a failed video, written by Process-pending, has added a video and has ended.
C33_Witness ==
    /\ op = "backfill"
    /\ step = "done"
    /\ \E v \in DOMAIN run_start : StatusOf(run_start, v) = "completed"
    /\ \E v \in DOMAIN run_start : StatusOf(run_start, v) = "failed"
    /\ DOMAIN videos # DOMAIN run_start

\* The parsed values Python takes as false: null, {}, [], 0, false and "".
FalsyValues == {JNull, JObj(<<>>), JArr(<<>>), JNum("0"), JBool("false"), JStr("")}

\* C34: when the wrapper has returned null, {}, [], 0, false or "" for a video, the
\* video is completed, its ai_title is ANALYSIS_FAILED and its ai_ingredients is the
\* JSON text of {title: ANALYSIS_FAILED, main: [], sauce: []}; the answer that
\* carried the value was the last call of the capability for the video.
C34_FalsyBecomesDefault ==
    (analysis.video_id # "" /\ ~analysis.raised /\ analysis.result \in FalsyValues) =>
        LET row == videos[analysis.video_id]
        IN  /\ row.analysis_status = "completed"
            /\ analysis.outcome = "completed"
            /\ row.ai_title = PyStr(ANALYSIS_FAILED)
            /\ row.ai_ingredients =
                  JsonDumps(<<Member("title", PyStr(ANALYSIS_FAILED)),
                              Member("main", PyList(<<>>)),
                              Member("sauce", PyList(<<>>))>>)
            /\ Parseable(script[analysis.calls])
            /\ ValueOf(script[analysis.calls]) = analysis.result
            /\ \A k \in 1..(analysis.calls - 1) : ~Parseable(script[k])

\* C34's case: the capability's first answer was the JSON text [], the wrapper
\* returned the empty list after that one call, and the video is completed.
C34_Witness ==
    /\ analysis.video_id = "v1"
    /\ script[1] = Bare(JArr(<<>>))
    /\ analysis.calls = 1
    /\ analysis.result = JArr(<<>>)
    /\ videos["v1"].analysis_status = "completed"
    /\ videos["v1"].ai_title = PyStr(ANALYSIS_FAILED)

\* The videos of the repeated runs.
RepeatIds == {"v1", "v3"}
\* The last invocation of the wrapper was for v and returned a JSON object.
ObjectReturnedFor(v) ==
    analysis.video_id = v /\ ~analysis.raised /\ analysis.result.kind = "obj"
\* The last invocation of the wrapper was for v and raised after its attempts.
RaisedFor(v) == analysis.video_id = v /\ analysis.raised

PendingOrFailed(table) ==
    {v \in DOMAIN table : StatusOf(table, v) \in {"pending", "failed"}}

\* The number of calls of the capability the running operation has made.
RECURSIVE CapabilityCalls(_)
CapabilityCalls(log) ==
    IF log = <<>> THEN 0 ELSE Head(log).token + CapabilityCalls(Tail(log))

\* What holds at every point of a Process-pending run of n selected videos.
ProcessRunInvariant ==
    op = "process" =>
        LET n == Len(videos_to_process)
            passed == Len(calls)
        IN  /\ {videos_to_process[i] : i \in 1..n} = PendingOrFailed(run_start)
            /\ Cardinality(PendingOrFailed(run_start)) = n
            /\ passed <= n
            /\ \A k \in 1..passed :
                  /\ calls[k].kind = "analyze"
                  /\ calls[k].id = videos_to_process[k]
                  /\ calls[k].token \in 1..3
            /\ CapabilityCalls(calls) <= 3 * n
            /\ \A i \in 1..n :
                  IF i <= passed
                  THEN StatusOf(videos, videos_to_process[i]) \in {"completed", "failed"}
                  ELSE videos[videos_to_process[i]] = run_start[videos_to_process[i]]
            /\ DOMAIN videos = DOMAIN run_start
            /\ \A v \in DOMAIN run_start \ PendingOrFailed(run_start) : videos[v] = run_start[v]
            /\ step = "done" =>
                  /\ passed = n
                  /\ \A v \in DOMAIN videos : StatusOf(videos, v) # "pending"

\* C36: a Process-pending run selects exactly the videos that were pending or
\* failed when it started; it invokes the wrapper for them one after the other,
\* once each, with at most 3 calls of the capability each and at most 3*n in all;
\* every step that changes the store writes the outcome of the one video the
\* wrapper was just invoked for; every started run reaches its end, and then every
\* selected video has been worked on and no video is pending.
C36_RunExactlySelected ==
    /\ []ProcessRunInvariant
    /\ [][ (op = "process" /\ op' = "process") =>
              /\ Len(calls') = Len(calls) + 1
              /\ \A v \in DOMAIN videos :
                    videos'[v] # videos[v] => v = calls'[Len(calls')].id
              /\ StatusOf(videos', calls'[Len(calls')].id) \in {"completed", "failed"}
         ]_vars
    /\ (op = "process") ~> (op = "process" /\ step = "done")

\* C36's case: a run over two selected videos has ended after 3 calls of the
\* capability for the first (all failed) and 3 for the second (the third answer
\* was an object): one is failed, the other completed, none is pending.
C36_Witness ==
    /\ op = "process"
    /\ step = "done"
    /\ Len(videos_to_process) = 2
    /\ CapabilityCalls(calls) = 6
    /\ StatusOf(videos, videos_to_process[1]) = "failed"
    /\ StatusOf(videos, videos_to_process[2]) = "completed"

\* C37: in every state of the store, a video whose analysis_status is pending has
\* a null ai_title and a null ai_ingredients, and a video with a non-null AI field
\* is completed or failed.
C37_PendingHasNoAiFields ==
    \A v \in DOMAIN videos :
        /\ StatusOf(videos, v) = "pending" =>
              videos[v].ai_title = PyNone /\ videos[v].ai_ingredients.isnull
        /\ (videos[v].ai_title # PyNone \/ ~videos[v].ai_ingredients.isnull) =>
              StatusOf(videos, v) \in {"completed", "failed"}

\* C37's case: the store holds a video that Backfill-all has inserted and no run
\* has worked on yet, next to a completed and a failed video with their AI fields
\* written.
C37_Witness ==
    /\ \E v \in DOMAIN videos :
          /\ StatusOf(videos, v) = "pending"
          /\ videos[v].ai_title = PyNone
          /\ videos[v].ai_ingredients.isnull
    /\ \E v \in DOMAIN videos :
          StatusOf(videos, v) = "completed" /\ ~videos[v].ai_ingredients.isnull
    /\ \E v \in DOMAIN videos :
          StatusOf(videos, v) = "failed" /\ videos[v].ai_title = PyStr(AI_COMM_ERROR)

\* C38: every row in the answer of a recommendation or search request belongs to a
\* video of the store whose analysis_status is completed (so neither pending nor
\* failed) and whose ai_title, shown as the row's title, is neither ANALYSIS_FAILED
\* nor AI_COMM_ERROR; a search answer has at most 50 rows, a recommendation
\* answer at most 3.
C38_OnlyStructuredExposed ==
    /\ \A r \in served.recipe_list :
          /\ r.video_id \in DOMAIN videos
          /\ StatusOf(videos, r.video_id) = "completed"
          /\ r.title = videos[r.video_id].ai_title
          /\ r.title \notin {PyStr(ANALYSIS_FAILED), PyStr(AI_COMM_ERROR)}
    /\ served.endpoint = "search" => Cardinality(served.recipe_list) <= 50
    /\ served.endpoint = "recommendations" => Cardinality(served.recipe_list) <= 3

\* C38's case: the store holds 51 recipes and a completed video titled
\* ANALYSIS_FAILED; a search request without parameters has been answered with 50
\* rows, all of them recipes.
C38_Witness ==
    /\ served.endpoint = "search"
    /\ served.status_code = 200
    /\ served.keyword = PyNone
    /\ Cardinality(served.recipe_list) = 50
    /\ Cardinality({v \in DOMAIN videos : StatusOf(videos, v) = "completed"}) = 52
    /\ \E v \in DOMAIN videos :
          /\ StatusOf(videos, v) = "completed"
          /\ videos[v].ai_title = PyStr(ANALYSIS_FAILED)
          /\ \A r \in served.recipe_list : r.video_id # v

=============================================================================
